---- MODULE Spec2Model ----
(***************************************************************************)
(* StudyConnect backend: the group membership services and the task        *)
(* lifecycle services of backend/services.py over the tables of            *)
(* backend/models.py.                                                      *)
(*                                                                         *)
(* The store is the four tables (users, groups, group_memberships, tasks)  *)
(* plus the uncommitted attribute changes a service call leaves in its     *)
(* session.  A service call is one action in the sequential                *)
(* specifications; SpecConc splits join, leave and createTask at their     *)
(* statements (read, then write).                                          *)
(***************************************************************************)
EXTENDS Integers, Sequences, FiniteSets, Bags, TLC

VARIABLES
    today,        \* date.today(), a date <<year, month, day>>
    groups,       \* table groups: id -> row
    nextGroupId,  \* next value of the groups.id sequence
    memberships,  \* table group_memberships: a bag of rows
    tasks,        \* table tasks (committed): id -> row
    nextTaskId,   \* next value of the tasks.id sequence
    pending,      \* session: task id -> object with uncommitted attribute changes
    procs,        \* SpecConc: request -> its position and locals
    last          \* the call that made the last step, its locals and outcome

vars == <<today, groups, nextGroupId, memberships, tasks, nextTaskId, pending, procs, last>>

-----------------------------------------------------------------------------
(* Bounds *)

MaxGroups == 2
MaxTasks == 2
\* tasks of the membership engine's specification
MaxGroupTasks == 1
\* tasks of the task lifecycle's specification
MaxLifecycleTasks == 1
\* groups of the specification of interleaved requests
MaxConcGroups == 1
\* groups of the specification of roles among three users
MaxRoleGroups == 1
\* groups of the specification of task assignment
MaxAssignGroups == 1
MaxDay == 2

-----------------------------------------------------------------------------
(* Values *)

\* Rows of table users; the group and task services never create or delete one.
Users == {"a", "b", "c"}
\* The two users of the specifications with more than one group
Pair == {"a", "b"}
\* Identities a caller may pass: users and one id with no users row.
UserIds == Pair \cup {"ghost"}
\* Python None in a string column / an integer foreign key.
None == "None"
NoGroup == 0

OK == "ok"
\* raise ValueError(...)  -- the spec's ValidationError
ValueError == "ValueError"
\* raise Exception(...)   -- the spec's NotFoundError
NotFound == "Exception"
PermissionError == "PermissionError"
KeyError == "KeyError"
IntegrityError == "IntegrityError"

Get(data, k, default) == IF k \in DOMAIN data THEN data[k] ELSE default

-----------------------------------------------------------------------------
(* Table group_memberships *)

MembershipRow(u, g, role) == [user_id |-> u, group_id |-> g, role |-> role]

\* query(GroupMembership).filter_by(user_id=u, group_id=g)
MembershipsOf(ms, u, g) ==
    {r \in BagToSet(ms) : r.user_id = u /\ r.group_id = g}

\* ....first(), for a non-empty result
First(S) == CHOOSE r \in S : TRUE

\* Number of rows of a bag's sub-bag.
RECURSIVE CountRows(_, _)
CountRows(ms, S) ==
    IF S = {} THEN 0
    ELSE LET r == CHOOSE x \in S : TRUE
         IN  CopiesIn(r, ms) + CountRows(ms, S \ {r})

\* The composite primary key (user_id, group_id): an INSERT of a second row
\* with the key of an existing row is refused.
PrimaryKeyFreeNoCheck(ms, u, g) == TRUE
PrimaryKeyFree(ms, u, g) == MembershipsOf(ms, u, g) = {}

InsertMembershipTwice(ms, row) == ms (+) SetToBag({row}) (+) SetToBag({row})
InsertMembership(ms, row) == ms (+) SetToBag({row})

\* DELETE of the row(s) with the key of the object
DeleteMembershipWholeGroup(ms, u, g) ==
    LET keep == {r \in BagToSet(ms) : r.group_id # g}
    IN  [r \in keep |-> ms[r]]
DeleteMembershipNone(ms, u, g) == ms
DeleteMembershipOfUser(ms, u, g) ==
    LET keep == {r \in BagToSet(ms) : r.user_id # u}
    IN  [r \in keep |-> ms[r]]
DeleteMembership(ms, u, g) ==
    LET keep == {r \in BagToSet(ms) : ~(r.user_id = u /\ r.group_id = g)}
    IN  [r \in keep |-> ms[r]]

\* cascade='all, delete-orphan' on Group.group_memberships
DeleteMembershipsOfGroup(ms, g) ==
    LET keep == {r \in BagToSet(ms) : r.group_id # g}
    IN  [r \in keep |-> ms[r]]

\* filter(group_id == g, role == 'admin', user_id != u).count()
OtherAdminsIgnoringRole(ms, u, g) ==
    CountRows(ms, {r \in BagToSet(ms) : r.group_id = g /\ r.user_id # u})
OtherAdminsNone(ms, u, g) == 0
OtherAdmins(ms, u, g) ==
    CountRows(ms, {r \in BagToSet(ms) :
                      r.group_id = g /\ r.role = "admin" /\ r.user_id # u})

\* not membership or membership.role != 'admin', negated
IsAdminAnyRole(ms, u, g) == MembershipsOf(ms, u, g) # {}
IsAdmin(ms, u, g) ==
    /\ MembershipsOf(ms, u, g) # {}
    /\ First(MembershipsOf(ms, u, g)).role = "admin"

Restrict(f, S) == [x \in S |-> f[x]]

-----------------------------------------------------------------------------
(* Session *)

\* The Task object the session hands out: the row with the uncommitted
\* attribute changes of this session on top.
Obj(id) == IF id \in DOMAIN pending THEN pending[id] ELSE tasks[id]

\* What db.session.commit() writes to table tasks: every dirty object.
Flushed == [id \in DOMAIN tasks |-> Obj(id)]

\* A request starts with a session of its own (db.init_app(app) has the
\* session removed when the request's application context ends), so a
\* service call finds no uncommitted change of an earlier call.
FreshSession == pending = <<>>

\* cascade='all, delete-orphan' on Group.tasks
TasksKept(ts, g) == ts
TasksNotOfGroup(ts, g) == Restrict(ts, {id \in DOMAIN ts : ts[id].group_id # g})

\* The record of a call: what it was given, what it raised ("ok" for none),
\* whether it reached a successful db.session.commit(), and the number of
\* group_memberships rows it deleted.
Call(op, err, user, target, group, task) ==
    [op |-> op, err |-> err, user |-> user, target |-> target,
     group |-> group, task |-> task, role |-> None, commit |-> FALSE,
     rows |-> 0, data |-> <<>>]

Committed(op, user, target, group, task) ==
    [Call(op, OK, user, target, group, task) EXCEPT !.commit = TRUE]

NoCall == Call("none", OK, None, None, NoGroup, 0)

-----------------------------------------------------------------------------
(* Dates *)

\* A 'YYYY-MM-DD' string, field by field.
DateString(y, m, d) == [year |-> y, month |-> m, day |-> d]

DaysInMonth(m) ==
    IF m = 2 THEN 28 ELSE IF m \in {4, 6, 9, 11} THEN 30 ELSE 31

\* datetime.strptime(s, '%Y-%m-%d') raises ValueError on a month or a day
\* out of range (years of the model are not leap years).
StrpTimeFails(s) ==
    \/ s.month < 1 \/ s.month > 12
    \/ s.day < 1 \/ s.day > DaysInMonth(s.month)

\* ....date()
StrpTime(s) == <<s.year, s.month, s.day>>

\* date.__lt__
DateLT(x, y) ==
    \/ x[1] < y[1]
    \/ x[1] = y[1] /\ x[2] < y[2]
    \/ x[1] = y[1] /\ x[2] = y[2] /\ x[3] < y[3]

Day(d) == <<2025, 1, d>>

-----------------------------------------------------------------------------
(* Group services *)

GroupKeys == {"name", "groupNumber", "inviteLink"}

GroupRow(data) ==
    [name |-> data["name"],
     description |-> Get(data, "description", None),
     group_number |-> data["groupNumber"],
     invite_link |-> data["inviteLink"]]

\* GroupMembership(user_id=creator_id, group=group, role='admin')
CreatorRoleMember == "member"
CreatorRole == "admin"

\* create_group_service(data, creator_id)
CreateGroup(data, creator) ==
    /\ FreshSession
    /\ nextGroupId <= MaxGroups
    /\ IF ~(GroupKeys \subseteq DOMAIN data)
       THEN \* data['name'] raises before anything is added
            /\ last' = Call("createGroup", KeyError, creator, None, NoGroup, 0)
            /\ UNCHANGED <<groups, nextGroupId, memberships, tasks, pending>>
       ELSE IF creator \notin Users
       THEN \* the membership's user_id violates its foreign key at commit:
            \* the transaction is rolled back, the id of the sequence is spent
            /\ last' = Call("createGroup", IntegrityError, creator, None, NoGroup, 0)
            /\ nextGroupId' = nextGroupId + 1
            /\ pending' = <<>>
            /\ UNCHANGED <<groups, memberships, tasks>>
       ELSE /\ groups' = groups @@ (nextGroupId :> GroupRow(data))
            /\ memberships' =
                  InsertMembership(memberships,
                                   MembershipRow(creator, nextGroupId, CreatorRole))
            /\ nextGroupId' = nextGroupId + 1
            /\ tasks' = Flushed
            /\ pending' = <<>>
            /\ last' = Committed("createGroup", creator, None, nextGroupId, 0)
    /\ UNCHANGED <<today, nextTaskId, procs>>

\* GroupMembership(user_id=user_id, group_id=group_id, role='member')
JoinRoleAdmin == "admin"
JoinRole == "member"

\* existing_membership = ....filter_by(user_id=u, group_id=g).first()
AlreadyMemberNever(ms, u, g) == FALSE
AlreadyMember(ms, u, g) == MembershipsOf(ms, u, g) # {}

\* join_group_service(user_id, group_id)
JoinGroup(u, g) ==
    /\ FreshSession
    /\ IF u \notin Users
       THEN /\ last' = Call("joinGroup", NotFound, u, None, g, 0)
            /\ UNCHANGED <<memberships, tasks, pending>>
       ELSE IF g \notin DOMAIN groups
       THEN /\ last' = Call("joinGroup", NotFound, u, None, g, 0)
            /\ UNCHANGED <<memberships, tasks, pending>>
       ELSE IF AlreadyMember(memberships, u, g)
       THEN \* already a member: the group is returned, nothing is committed
            /\ last' = Call("joinGroup", OK, u, None, g, 0)
            /\ UNCHANGED <<memberships, tasks, pending>>
       ELSE IF ~PrimaryKeyFree(memberships, u, g)
       THEN /\ last' = Call("joinGroup", IntegrityError, u, None, g, 0)
            /\ pending' = <<>>
            /\ UNCHANGED <<memberships, tasks>>
       ELSE /\ memberships' =
                  InsertMembership(memberships, MembershipRow(u, g, JoinRole))
            /\ tasks' = Flushed
            /\ pending' = <<>>
            /\ last' = Committed("joinGroup", u, None, g, 0)
    /\ UNCHANGED <<today, groups, nextGroupId, nextTaskId, procs>>

\* db.session.delete(group); db.session.commit(): the group, and by cascade
\* its memberships and its tasks
DeleteGroupCommit(g) ==
    /\ groups' = Restrict(groups, DOMAIN groups \ {g})
    /\ memberships' = DeleteMembershipsOfGroup(memberships, g)
    /\ tasks' = TasksNotOfGroup(Flushed, g)
    /\ pending' = <<>>

\* db.session.delete(membership); db.session.commit()
DeleteMembershipCommit(u, g) ==
    /\ memberships' = DeleteMembership(memberships, u, g)
    /\ tasks' = Flushed
    /\ pending' = <<>>
    /\ UNCHANGED groups

\* leave_group_service(user_id, group_id)
LeaveGroup(u, g) ==
    /\ FreshSession
    /\ IF MembershipsOf(memberships, u, g) = {}
       THEN /\ last' = Call("leaveGroup", NotFound, u, None, g, 0)
            /\ UNCHANGED <<groups, memberships, tasks, pending>>
       ELSE LET membership == First(MembershipsOf(memberships, u, g))
                lastAdmin == /\ membership.role = "admin"
                             /\ OtherAdmins(memberships, u, g) = 0
                             /\ g \in DOMAIN groups
            IN  /\ IF lastAdmin
                   THEN DeleteGroupCommit(g)
                   ELSE DeleteMembershipCommit(u, g)
                /\ last' = [Committed("leaveGroup", u, None, g, 0) EXCEPT
                               !.role = membership.role,
                               !.rows = BagCardinality(memberships)
                                          - BagCardinality(memberships')]
    /\ UNCHANGED <<today, nextGroupId, nextTaskId, procs>>

\* membership_to_update.role = 'admin'
SetRoleNoWrite(ms, u, g, role) == ms
SetRole(ms, u, g, role) ==
    InsertMembership(DeleteMembership(ms, u, g), MembershipRow(u, g, role))

\* promote_to_admin_service(promoter_id, user_to_promote_id, group_id)
PromoteToAdmin(p, t, g) ==
    /\ FreshSession
    /\ IF ~IsAdmin(memberships, p, g)
       THEN /\ last' = Call("promoteToAdmin", PermissionError, p, t, g, 0)
            /\ UNCHANGED <<memberships, tasks, pending>>
       ELSE IF MembershipsOf(memberships, t, g) = {}
       THEN /\ last' = Call("promoteToAdmin", NotFound, p, t, g, 0)
            /\ UNCHANGED <<memberships, tasks, pending>>
       ELSE /\ memberships' = SetRole(memberships, t, g, "admin")
            /\ tasks' = Flushed
            /\ pending' = <<>>
            /\ last' = Committed("promoteToAdmin", p, t, g, 0)
    /\ UNCHANGED <<today, groups, nextGroupId, nextTaskId, procs>>

\* The target's role check of kick_user_service
KickRefusedNoAdminCheck(membership_to_kick, k, t) == k = t
KickRefused(membership_to_kick, k, t) ==
    \/ membership_to_kick.role = "admin"
    \/ k = t

\* kick_user_service(kicker_id, user_to_kick_id, group_id)
KickUser(k, t, g) ==
    /\ FreshSession
    /\ IF ~IsAdmin(memberships, k, g)
       THEN /\ last' = Call("kickUser", PermissionError, k, t, g, 0)
            /\ UNCHANGED <<memberships, tasks, pending>>
       ELSE IF MembershipsOf(memberships, t, g) = {}
       THEN /\ last' = Call("kickUser", NotFound, k, t, g, 0)
            /\ UNCHANGED <<memberships, tasks, pending>>
       ELSE IF KickRefused(First(MembershipsOf(memberships, t, g)), k, t)
       THEN /\ last' = Call("kickUser", PermissionError, k, t, g, 0)
            /\ UNCHANGED <<memberships, tasks, pending>>
       ELSE /\ memberships' = DeleteMembership(memberships, t, g)
            /\ tasks' = Flushed
            /\ pending' = <<>>
            /\ last' = [Committed("kickUser", k, t, g, 0) EXCEPT !.rows = 1]
    /\ UNCHANGED <<today, groups, nextGroupId, nextTaskId, procs>>


-----------------------------------------------------------------------------
(* Strings of the status column, as sequences of characters *)

TODO == <<"t", "o", "d", "o">>
IN_PROGRESS == <<"i", "n", "_", "p", "r", "o", "g", "r", "e", "s", "s">>
BLOCKED == <<"b", "l", "o", "c", "k", "e", "d">>
DONE == <<"d", "o", "n", "e">>
EXPIRED == <<"e", "x", "p", "i", "r", "e", "d">>
INPROGRESS == <<"i", "n", "p", "r", "o", "g", "r", "e", "s", "s">>
\* Strings a client may send besides
CamelInProgress == <<"i", "n", "P", "r", "o", "g", "r", "e", "s", "s">>
UpperInProgress == <<"I", "N", "_", "P", "R", "O", "G", "R", "E", "S", "S">>
CapitalDone == <<"D", "o", "n", "e">>
CapitalExpired == <<"E", "x", "p", "i", "r", "e", "d">>
CANCELLED == <<"c", "a", "n", "c", "e", "l", "l", "e", "d">>

Statuses == {TODO, IN_PROGRESS, BLOCKED, DONE}

UpperCase == <<"A", "B", "C", "D", "E", "F", "G", "H", "I", "J", "K", "L", "M",
               "N", "O", "P", "Q", "R", "S", "T", "U", "V", "W", "X", "Y", "Z">>
LowerCase == <<"a", "b", "c", "d", "e", "f", "g", "h", "i", "j", "k", "l", "m",
               "n", "o", "p", "q", "r", "s", "t", "u", "v", "w", "x", "y", "z">>

LowerChar(c) ==
    IF \E i \in 1..26 : UpperCase[i] = c
    THEN LowerCase[CHOOSE i \in 1..26 : UpperCase[i] = c]
    ELSE c

\* str.lower()
Lower(s) == [i \in 1..Len(s) |-> LowerChar(s[i])]

\* str.replace(old, new): every non-overlapping occurrence, left to right
RECURSIVE Replace(_, _, _)
Replace(s, old, new) ==
    IF Len(s) < Len(old) THEN s
    ELSE IF SubSeq(s, 1, Len(old)) = old
    THEN new \o Replace(SubSeq(s, Len(old) + 1, Len(s)), old, new)
    ELSE <<s[1]>> \o Replace(Tail(s), old, new)

VALID_PRIORITIES == {"low", "medium", "high"}

\* VALID_STATUSES.get(current_status, [])
ValidNextAnyOrder(current) == Statuses \ {current}
ValidNext(current) ==
    CASE current = TODO -> {IN_PROGRESS}
      [] current = IN_PROGRESS -> {DONE, BLOCKED, TODO}
      [] current = BLOCKED -> {IN_PROGRESS}
      [] current = DONE -> {IN_PROGRESS, TODO}
      [] OTHER -> {}

-----------------------------------------------------------------------------
(* Task services *)

\* Task.query.filter(and_(title ==, deadline ==, user_id ==, group_id ==));
\* the query autoflushes, so it sees this session's uncommitted changes
DuplicatesNone(title, deadline, user_id, group_id) == {}
Duplicates(title, deadline, user_id, group_id) ==
    {id \in DOMAIN tasks :
        /\ Obj(id).title = title
        /\ Obj(id).deadline = deadline
        /\ Obj(id).user_id = user_id
        /\ Obj(id).group_id = group_id}

\* Task(title=..., ...)
NewTask(data, deadline) ==
    [title |-> data["title"],
     deadline |-> deadline,
     kind |-> data["kind"],
     priority |-> data["priority"],
     status |-> Get(data, "status", TODO),
     user_id |-> Get(data, "user_id", None),
     group_id |-> Get(data, "group_id", NoGroup),
     assignee |-> Get(data, "assignee", None),
     notes |-> Get(data, "notes", None),
     progress |-> Get(data, "progress", 0)]

\* The foreign keys of table tasks, checked at commit
TaskKeysHoldUserOnly(t) == t.user_id = None \/ t.user_id \in Users
TaskKeysHold(t) ==
    /\ t.user_id = None \/ t.user_id \in Users
    /\ t.group_id = NoGroup \/ t.group_id \in DOMAIN groups

\* if deadline_date < date.today()
DeadlinePastNever(deadline_date) == FALSE
DeadlinePast(deadline_date) == DateLT(deadline_date, today)

\* create_task_service(data)
CreateTask(data) ==
    /\ FreshSession
    /\ IF "deadline" \notin DOMAIN data
       THEN /\ last' = [Call("createTask", KeyError, None, None, NoGroup, 0)
                           EXCEPT !.data = data]
            /\ UNCHANGED <<tasks, nextTaskId, pending>>
       ELSE IF \/ StrpTimeFails(data["deadline"])
               \/ DeadlinePast(StrpTime(data["deadline"]))
       THEN /\ last' = [Call("createTask", ValueError, None, None, NoGroup, 0)
                           EXCEPT !.data = data]
            /\ UNCHANGED <<tasks, nextTaskId, pending>>
       ELSE IF "title" \notin DOMAIN data
       THEN /\ last' = [Call("createTask", KeyError, None, None, NoGroup, 0)
                           EXCEPT !.data = data]
            /\ UNCHANGED <<tasks, nextTaskId, pending>>
       ELSE LET deadline_date == StrpTime(data["deadline"])
                user_id == Get(data, "user_id", None)
                group_id == Get(data, "group_id", NoGroup)
                existing == Duplicates(data["title"], deadline_date, user_id, group_id)
            IN  IF existing # {}
                THEN \* .first(): the existing task is returned, nothing is written
                     \E id \in existing :
                        /\ last' = [Call("createTask", OK, user_id, None, group_id, id)
                                       EXCEPT !.data = data]
                        /\ UNCHANGED <<tasks, nextTaskId, pending>>
                ELSE IF ~({"kind", "priority"} \subseteq DOMAIN data)
                THEN /\ last' = [Call("createTask", KeyError, user_id, None, group_id, 0)
                                    EXCEPT !.data = data]
                     /\ UNCHANGED <<tasks, nextTaskId, pending>>
                ELSE /\ nextTaskId <= MaxTasks
                     /\ nextTaskId' = nextTaskId + 1
                     /\ pending' = <<>>
                     /\ IF TaskKeysHold(NewTask(data, deadline_date))
                        THEN /\ tasks' = Flushed @@
                                           (nextTaskId :> NewTask(data, deadline_date))
                             /\ last' = [Committed("createTask", user_id, None,
                                                   group_id, nextTaskId)
                                            EXCEPT !.data = data]
                        ELSE /\ tasks' = tasks
                             /\ last' = [Call("createTask", IntegrityError, user_id,
                                              None, group_id, 0)
                                            EXCEPT !.data = data]
    /\ UNCHANGED <<today, groups, nextGroupId, memberships, procs>>

\* if data.get('status') == 'expired': del data['status']
StripExpired(data) ==
    IF "status" \in DOMAIN data /\ data["status"] = EXPIRED
    THEN Restrict(data, DOMAIN data \ {"status"})
    ELSE data

\* The status strings of the specifications
RawStatuses ==
    Statuses \cup {EXPIRED, INPROGRESS, CamelInProgress, UpperInProgress,
                   CapitalDone, CapitalExpired, CANCELLED}

\* task.status.lower().replace("inprogress", "in_progress").replace("expired", "todo")
NormalizeCurrentOf ==
    [s \in RawStatuses |->
        Replace(Replace(Lower(s), INPROGRESS, IN_PROGRESS), EXPIRED, TODO)]
NormalizeCurrent(s) ==
    IF s \in RawStatuses THEN NormalizeCurrentOf[s]
    ELSE Replace(Replace(Lower(s), INPROGRESS, IN_PROGRESS), EXPIRED, TODO)

\* data['status'].lower().replace("inprogress", "in_progress")
NormalizeNewOf ==
    [s \in RawStatuses |-> Replace(Lower(s), INPROGRESS, IN_PROGRESS)]
NormalizeNewKeepCase(s) == s
NormalizeNew(s) ==
    IF s \in RawStatuses THEN NormalizeNewOf[s]
    ELSE Replace(Lower(s), INPROGRESS, IN_PROGRESS)

\* data, as the status block leaves it: data['status'] = new_status
NormalizedData(data) ==
    LET d == StripExpired(data)
    IN  IF "status" \in DOMAIN d
        THEN [d EXCEPT !["status"] = NormalizeNew(d["status"])]
        ELSE d

\* The status block without the raise of line 167
StatusErrorNoDeadlineGuard(task, d) ==
    /\ "status" \in DOMAIN d
    /\ LET current_status == NormalizeCurrent(task.status)
           new_status == d["status"]
       IN  new_status # current_status /\ new_status \notin ValidNext(current_status)
\* The two raises of the status block
StatusError(task, d) ==
    /\ "status" \in DOMAIN d
    /\ LET current_status == NormalizeCurrent(task.status)
           new_status == d["status"]
       IN  \/ new_status # current_status /\ new_status \notin ValidNext(current_status)
           \/ new_status = IN_PROGRESS /\ DateLT(task.deadline, today)

\* if new_status == 'done': task.progress = 100
AfterStatus(task, d) ==
    IF "status" \in DOMAIN d /\ d["status"] = DONE
    THEN [task EXCEPT !.progress = 100]
    ELSE task

\* The progress block with the upper bound alone
ProgressErrorUpperOnly(d) ==
    /\ "progress" \in DOMAIN d
    /\ ~(d["progress"] <= 100)
ProgressError(d) ==
    /\ "progress" \in DOMAIN d
    /\ ~(0 <= d["progress"] /\ d["progress"] <= 100)

PriorityError(d) ==
    /\ "priority" \in DOMAIN d
    /\ d["priority"] \notin VALID_PRIORITIES

\* any(m.group_id == g for m in user.group_memberships)
InGroupAlways(u, g) == TRUE
InGroup(u, g) == \E r \in BagToSet(memberships) : r.user_id = u /\ r.group_id = g

\* The group block: what it raises, "ok" for nothing
GroupError(d, editor) ==
    IF Get(d, "group_id", NoGroup) = NoGroup THEN OK
    ELSE IF editor = None THEN PermissionError
    ELSE IF editor \notin Users THEN "AttributeError"
    ELSE IF ~InGroup(editor, d["group_id"]) THEN PermissionError
    ELSE OK

\* The assignee block, with task.group_id for target_group_id
AssigneeErrorCurrentGroup(task, d) ==
    /\ Get(d, "assignee", None) # None
    /\ \/ d["assignee"] \notin Users
       \/ task.group_id # NoGroup /\ ~InGroup(d["assignee"], task.group_id)
AssigneeError(task, d) ==
    /\ Get(d, "assignee", None) # None
    /\ \/ d["assignee"] \notin Users
       \/ LET target_group_id == Get(d, "group_id", task.group_id)
          IN  target_group_id # NoGroup /\ ~InGroup(d["assignee"], target_group_id)

IsNone(field, v) ==
    CASE field = "group_id" -> v = NoGroup
      [] field \in {"status", "progress"} -> FALSE
      [] OTHER -> v = None

UpdateFields == {"title", "kind", "priority", "status", "user_id", "group_id",
                 "assignee", "notes", "progress"}

\* The field loop, and the explicit write of group_id after it
ApplyFieldsWithNone(task, d) ==
    [f \in DOMAIN task |->
        IF f \in UpdateFields /\ f \in DOMAIN d THEN d[f] ELSE task[f]]
ApplyFields(task, d) ==
    [f \in DOMAIN task |->
        IF f = "group_id" /\ f \in DOMAIN d THEN d[f]
        ELSE IF f \in UpdateFields /\ f \in DOMAIN d /\ ~IsNone(f, d[f]) THEN d[f]
        ELSE task[f]]

\* The deadline block without the raise of line 215
DeadlineErrorParseOnly(d) ==
    /\ "deadline" \in DOMAIN d
    /\ StrpTimeFails(d["deadline"])
DeadlineError(d) ==
    /\ "deadline" \in DOMAIN d
    /\ \/ StrpTimeFails(d["deadline"])
       \/ DateLT(StrpTime(d["deadline"]), today)

ApplyDeadline(task, d) ==
    IF "deadline" \in DOMAIN d
    THEN [task EXCEPT !.deadline = StrpTime(d["deadline"])]
    ELSE task

\* The messages of the exceptions raised
StatusMessage(task, d) ==
    IF d["status"] # NormalizeCurrent(task.status)
       /\ d["status"] \notin ValidNext(NormalizeCurrent(task.status))
    THEN "Invalid status transition"
    ELSE "Cannot start a task that is past its deadline."
GroupMessage(d, editor) ==
    IF editor = None THEN "User ID is required to assign a task to a group."
    ELSE IF editor \notin Users THEN "'NoneType' object has no attribute"
    ELSE "You can only assign tasks to groups you are a member of."
AssigneeMessage(d) ==
    IF d["assignee"] \notin Users THEN "Assignee user not found"
    ELSE "Assignee must be member of the group"
DeadlineMessage(d) ==
    IF StrpTimeFails(d["deadline"]) THEN "does not match format"
    ELSE "Deadline cannot be in the past"

Raised(err, msg, obj) == [err |-> err, msg |-> msg, obj |-> obj]

\* update_task_service with the group block ahead of the other checks
UpdateResultGroupFirst(task, data, editor) ==
    LET d == NormalizedData(data)
        t1 == AfterStatus(task, d)
        t2 == ApplyFields(t1, d)
        t3 == ApplyDeadline(t2, d)
    IN  IF GroupError(d, editor) # OK
        THEN Raised(GroupError(d, editor), GroupMessage(d, editor), task)
        ELSE IF StatusError(task, d) THEN Raised(ValueError, StatusMessage(task, d), task)
        ELSE IF ProgressError(d)
        THEN Raised(ValueError, "Progress must be between 0 and 100", t1)
        ELSE IF PriorityError(d) THEN Raised(ValueError, "Invalid priority value", t1)
        ELSE IF AssigneeError(task, d) THEN Raised(ValueError, AssigneeMessage(d), t1)
        ELSE IF DeadlineError(d) THEN Raised(ValueError, DeadlineMessage(d), t2)
        ELSE IF ~TaskKeysHold(t3) THEN Raised(IntegrityError, "IntegrityError", t3)
        ELSE Raised(OK, "", t3)

\* update_task_service from the fetched task on: what it raises and the Task
\* object as the call leaves it in the session
UpdateResult(task, data, editor) ==
    LET d == NormalizedData(data)
        t1 == AfterStatus(task, d)
        t2 == ApplyFields(t1, d)
        t3 == ApplyDeadline(t2, d)
    IN  IF StatusError(task, d) THEN Raised(ValueError, StatusMessage(task, d), task)
        ELSE IF ProgressError(d)
        THEN Raised(ValueError, "Progress must be between 0 and 100", t1)
        ELSE IF PriorityError(d) THEN Raised(ValueError, "Invalid priority value", t1)
        ELSE IF GroupError(d, editor) # OK
        THEN Raised(GroupError(d, editor), GroupMessage(d, editor), t1)
        ELSE IF AssigneeError(task, d) THEN Raised(ValueError, AssigneeMessage(d), t1)
        ELSE IF DeadlineError(d) THEN Raised(ValueError, DeadlineMessage(d), t2)
        ELSE IF ~TaskKeysHold(t3) THEN Raised(IntegrityError, "IntegrityError", t3)
        ELSE Raised(OK, "", t3)

\* The session after a call that raised before commit: the object stays dirty
Dirty(id, obj) ==
    IF obj = tasks[id]
    THEN Restrict(pending, DOMAIN pending \ {id})
    ELSE [x \in DOMAIN pending \cup {id} |-> IF x = id THEN obj ELSE pending[x]]

\* update_task_service(task_id, data, editor_user_id)
UpdateTask(id, data, editor) ==
    /\ FreshSession
    /\ IF id \notin DOMAIN tasks
       THEN /\ last' = [Call("updateTask", NotFound, editor, None, NoGroup, id)
                           EXCEPT !.data = data]
                        @@ [msg |-> "does not exist"]
            /\ UNCHANGED <<tasks, pending>>
       ELSE LET r == UpdateResult(Obj(id), data, editor)
            IN  /\ last' = [Call("updateTask", r.err, editor, None, NoGroup, id)
                               EXCEPT !.data = data, !.commit = (r.err = OK)]
                            @@ [msg |-> r.msg]
                /\ IF r.err = OK
                   THEN /\ tasks' = [Flushed EXCEPT ![id] = r.obj]
                        /\ pending' = <<>>
                   ELSE IF r.err = IntegrityError
                   THEN \* the failed commit rolls the transaction back
                        /\ tasks' = tasks
                        /\ pending' = <<>>
                   ELSE /\ tasks' = tasks
                        /\ pending' = Dirty(id, r.obj)
    /\ UNCHANGED <<today, groups, nextGroupId, memberships, nextTaskId, procs>>

\* The end of the request: the scoped session is removed, which rolls back
\* what was not committed
Teardown ==
    /\ pending # <<>>
    /\ pending' = <<>>
    /\ last' = Call("teardown", OK, None, None, NoGroup, 0)
    /\ UNCHANGED <<today, groups, nextGroupId, memberships, tasks, nextTaskId, procs>>

\* date.today() moves on
AdvanceDay ==
    /\ today[3] < MaxDay
    /\ today' = Day(today[3] + 1)
    /\ last' = Call("advanceDay", OK, None, None, NoGroup, 0)
    /\ UNCHANGED <<groups, nextGroupId, memberships, tasks, nextTaskId, pending, procs>>

-----------------------------------------------------------------------------
(* Requests in steps.  The server handles requests in threads, each with a *)
(* session and a transaction of its own; a statement reads what is         *)
(* committed when it runs (READ COMMITTED), so another request's commit    *)
(* may fall between a request's read and its write.                        *)

Requests == {"r1", "r2"}

\* A request's position (pc) and locals; pc "done" once it has returned or
\* raised, with what it raised in err and the id of the task it returned
Proc(op, pc, user, group) ==
    [op |-> op, pc |-> pc, user |-> user, group |-> group, role |-> None,
     data |-> <<>>, err |-> OK, commit |-> FALSE, task |-> 0]

Done(proc, err, commit) == [proc EXCEPT !.pc = "done", !.err = err, !.commit = commit]

SetProc(p, proc) == [x \in DOMAIN procs \cup {p} |-> IF x = p THEN proc ELSE procs[x]]

\* leave_group_service: membership = ....first(), and the branch on its role
LeaveBegin(p, u, g) ==
    /\ p \notin DOMAIN procs
    /\ IF MembershipsOf(memberships, u, g) = {}
       THEN procs' = SetProc(p, Done(Proc("leaveGroup", "done", u, g), NotFound, FALSE))
       ELSE LET membership == First(MembershipsOf(memberships, u, g))
            IN  procs' = SetProc(p, [Proc("leaveGroup",
                                          IF membership.role = "admin"
                                          THEN "count" ELSE "delete", u, g)
                                       EXCEPT !.role = membership.role])
    /\ UNCHANGED <<today, groups, nextGroupId, memberships, tasks, nextTaskId,
                   pending, last>>

\* leave_group_service: other_admins = ....count()
LeaveCount(p) ==
    /\ p \in DOMAIN procs
    /\ procs[p].op = "leaveGroup" /\ procs[p].pc = "count"
    /\ procs' = [procs EXCEPT ![p].pc =
                    IF OtherAdmins(memberships, procs[p].user, procs[p].group) = 0
                    THEN "deleteGroup" ELSE "delete"]
    /\ UNCHANGED <<today, groups, nextGroupId, memberships, tasks, nextTaskId,
                   pending, last>>

\* leave_group_service: the delete of the group or of the membership, and
\* the commit
LeaveWrite(p) ==
    /\ p \in DOMAIN procs
    /\ procs[p].op = "leaveGroup" /\ procs[p].pc \in {"deleteGroup", "delete"}
    /\ IF procs[p].pc = "deleteGroup" /\ procs[p].group \in DOMAIN groups
       THEN DeleteGroupCommit(procs[p].group)
       ELSE DeleteMembershipCommit(procs[p].user, procs[p].group)
    /\ procs' = [procs EXCEPT ![p] = Done(procs[p], OK, TRUE)]
    /\ UNCHANGED <<today, nextGroupId, nextTaskId, last>>

\* join_group_service: the reads of user, group and existing membership
JoinBegin(p, u, g) ==
    /\ p \notin DOMAIN procs
    /\ procs' = SetProc(p,
          IF u \notin Users \/ g \notin DOMAIN groups
          THEN Done(Proc("joinGroup", "done", u, g), NotFound, FALSE)
          ELSE IF AlreadyMember(memberships, u, g)
          THEN Done(Proc("joinGroup", "done", u, g), OK, FALSE)
          ELSE Proc("joinGroup", "insert", u, g))
    /\ UNCHANGED <<today, groups, nextGroupId, memberships, tasks, nextTaskId,
                   pending, last>>

\* join_group_service: the insert of the membership and the commit, which
\* the primary key or the foreign key to groups may refuse
JoinInsert(p) ==
    /\ p \in DOMAIN procs
    /\ procs[p].op = "joinGroup" /\ procs[p].pc = "insert"
    /\ IF \/ ~PrimaryKeyFree(memberships, procs[p].user, procs[p].group)
          \/ procs[p].group \notin DOMAIN groups
       THEN /\ procs' = [procs EXCEPT ![p] = Done(procs[p], IntegrityError, FALSE)]
            /\ UNCHANGED memberships
       ELSE /\ memberships' =
                  InsertMembership(memberships,
                                   MembershipRow(procs[p].user, procs[p].group, JoinRole))
            /\ procs' = [procs EXCEPT ![p] = Done(procs[p], OK, TRUE)]
    /\ UNCHANGED <<today, groups, nextGroupId, tasks, nextTaskId, pending, last>>

\* create_task_service: the deadline's check and the lookup of a duplicate
CreateTaskBegin(p, data) ==
    /\ p \notin DOMAIN procs
    /\ LET proc == [Proc("createTask", "insert", Get(data, "user_id", None),
                         Get(data, "group_id", NoGroup)) EXCEPT !.data = data]
       IN  IF ~({"deadline", "title"} \subseteq DOMAIN data)
           THEN procs' = SetProc(p, Done(proc, KeyError, FALSE))
           ELSE IF \/ StrpTimeFails(data["deadline"])
                   \/ DeadlinePast(StrpTime(data["deadline"]))
           THEN procs' = SetProc(p, Done(proc, ValueError, FALSE))
           ELSE LET existing == Duplicates(data["title"], StrpTime(data["deadline"]),
                                           proc.user, proc.group)
                IN  IF existing # {}
                    THEN \E id \in existing :
                            procs' = SetProc(p, [Done(proc, OK, FALSE) EXCEPT !.task = id])
                    ELSE procs' = SetProc(p, proc)
    /\ UNCHANGED <<today, groups, nextGroupId, memberships, tasks, nextTaskId,
                   pending, last>>

\* create_task_service: Task(...), add and commit
CreateTaskInsert(p) ==
    /\ p \in DOMAIN procs
    /\ procs[p].op = "createTask" /\ procs[p].pc = "insert"
    /\ LET data == procs[p].data
       IN  IF ~({"kind", "priority"} \subseteq DOMAIN data)
           THEN /\ procs' = [procs EXCEPT ![p] = Done(procs[p], KeyError, FALSE)]
                /\ UNCHANGED <<tasks, nextTaskId>>
           ELSE /\ nextTaskId <= MaxTasks
                /\ nextTaskId' = nextTaskId + 1
                /\ IF TaskKeysHold(NewTask(data, StrpTime(data["deadline"])))
                   THEN /\ tasks' = tasks @@
                              (nextTaskId :> NewTask(data, StrpTime(data["deadline"])))
                        /\ procs' = [procs EXCEPT ![p] =
                              [Done(procs[p], OK, TRUE) EXCEPT !.task = nextTaskId]]
                   ELSE /\ tasks' = tasks
                        /\ procs' = [procs EXCEPT ![p] =
                                        Done(procs[p], IntegrityError, FALSE)]
    /\ UNCHANGED <<today, groups, nextGroupId, memberships, pending, last>>

-----------------------------------------------------------------------------
(* The store after construction: db.create_all() on an empty database *)

Init ==
    /\ today = Day(1)
    /\ groups = <<>>
    /\ nextGroupId = 1
    /\ memberships = EmptyBag
    /\ tasks = <<>>
    /\ nextTaskId = 1
    /\ pending = <<>>
    /\ procs = <<>>
    /\ last = NoCall


-----------------------------------------------------------------------------
(* Spec: the membership engine, with tasks created in and outside groups *)

GroupIds == 1..MaxGroups
TaskIds == 1..MaxTasks

\* The scenario's group, and inputs lacking a required key
GroupData == [name |-> "S1", groupNumber |-> 1, inviteLink |-> "x"]
GroupDatas ==
    {GroupData,
     [groupNumber |-> 1, inviteLink |-> "x"],
     [name |-> "S1", inviteLink |-> "x"],
     [name |-> "S1", groupNumber |-> 1]}

TaskData(title, day, user_id, group_id) ==
    [title |-> title, deadline |-> DateString(2025, 1, day), kind |-> "homework",
     priority |-> "high", user_id |-> user_id, group_id |-> group_id]

\* Tasks created by a and assigned to b
GroupTaskDatas ==
    {TaskData("Homework", MaxDay, "a", g) @@ [assignee |-> "b"] :
        g \in {NoGroup} \cup GroupIds}

Next ==
    \/ \E data \in GroupDatas, creator \in UserIds : CreateGroup(data, creator)
    \/ \E u \in UserIds, g \in GroupIds : JoinGroup(u, g)
    \/ \E u \in Pair, g \in GroupIds : LeaveGroup(u, g)
    \/ \E p \in Pair, t \in Pair, g \in GroupIds : PromoteToAdmin(p, t, g)
    \/ \E k \in Pair, t \in Pair, g \in GroupIds : KickUser(k, t, g)
    \/ \E data \in GroupTaskDatas : nextTaskId <= MaxGroupTasks /\ CreateTask(data)

Spec == Init /\ [][Next]_vars


-----------------------------------------------------------------------------
(* Claims on the membership engine, under Spec *)

AdminsOf(ms, g) == {r \in BagToSet(ms) : r.group_id = g /\ r.role = "admin"}
RowsOfGroup(ms, g) == {r \in BagToSet(ms) : r.group_id = g}
TasksOfGroup(ts, g) == {id \in DOMAIN ts : ts[id].group_id = g}

\* C1: every group that exists has at least one membership with role admin.
C1_LastAdminInvariant ==
    \A g \in DOMAIN groups : AdminsOf(memberships, g) # {}

\* An admin has left a group that had another admin: the group is still there.
C1_Witness ==
    /\ last.op = "leaveGroup" /\ last.err = OK /\ last.role = "admin"
    /\ last.group \in DOMAIN groups

\* C2: leaveGroup(u, g) by an admin u.  With no other admin of g, the group,
\* every membership of g and every task of g are removed, and nothing of
\* another group is; with another admin, exactly u's membership is removed
\* and the groups and the tasks stay as they are.
C2_AdminLeave ==
    [][ (last'.op = "leaveGroup" /\ last'.err = OK /\ last'.role = "admin") =>
          LET u == last'.user
              g == last'.group
          IN  IF \E r \in AdminsOf(memberships, g) : r.user_id # u
              THEN /\ groups' = groups
                   /\ tasks' = tasks
                   /\ BagToSet(memberships') =
                         BagToSet(memberships) \ {MembershipRow(u, g, "admin")}
                   /\ BagCardinality(memberships') = BagCardinality(memberships) - 1
              ELSE /\ DOMAIN groups' = DOMAIN groups \ {g}
                   /\ \A h \in DOMAIN groups' : groups'[h] = groups[h]
                   /\ RowsOfGroup(memberships', g) = {}
                   /\ BagToSet(memberships') =
                         BagToSet(memberships) \ RowsOfGroup(memberships, g)
                   /\ DOMAIN tasks' = DOMAIN tasks \ TasksOfGroup(tasks, g)
                   /\ \A id \in DOMAIN tasks' : tasks'[id] = tasks[id] ]_vars

\* The last admin has left a group that had a plain member and a task: the
\* group is gone, and so are the other membership and the task.
C2_Witness ==
    /\ last.op = "leaveGroup" /\ last.err = OK /\ last.role = "admin"
    /\ last.group \notin DOMAIN groups
    /\ last.rows >= 2
    /\ nextTaskId > 1 /\ tasks = <<>>

\* C6: joinGroup(u, g) for a pair that already has a membership returns the
\* group without a commit and leaves every table as it was.
C6_IdempotentJoin ==
    [][ (last'.op = "joinGroup" /\ MembershipsOf(memberships, last'.user, last'.group) # {}) =>
          /\ last'.err = OK
          /\ ~last'.commit
          /\ UNCHANGED <<groups, nextGroupId, memberships, tasks, nextTaskId, pending>>
      ]_vars

\* An admin has called joinGroup on their own group and is still its admin.
C6_Witness ==
    /\ last.op = "joinGroup" /\ last.err = OK /\ ~last.commit
    /\ MembershipsOf(memberships, last.user, last.group)
          = {MembershipRow(last.user, last.group, "admin")}
    /\ CopiesIn(MembershipRow(last.user, last.group, "admin"), memberships) = 1


-----------------------------------------------------------------------------
(* SpecTask: the status lifecycle of personal tasks due on the first day *)

PastDate == DateString(2024, 12, 31)
NoSuchDate == DateString(2025, 2, 30)

LifecycleCreateDatas ==
    {TaskData(t, 1, "a", NoGroup) : t \in {"Homework", "Essay"}}
    \cup {[title |-> "Homework", deadline |-> NoSuchDate, kind |-> "homework",
           priority |-> "high", user_id |-> "a", group_id |-> NoGroup]}

LifecycleStatuses ==
    Statuses \cup {EXPIRED, CamelInProgress, UpperInProgress, CapitalDone,
                   CapitalExpired, CANCELLED}

LifecycleUpdateDatas ==
    {[status |-> s] : s \in LifecycleStatuses}
    \cup {[status |-> DONE, progress |-> 50],
          [status |-> IN_PROGRESS, notes |-> "n"],
          [progress |-> 50]}

NextTask ==
    \/ \E data \in LifecycleCreateDatas :
          nextTaskId <= MaxLifecycleTasks /\ CreateTask(data)
    \/ \E id \in 1..MaxLifecycleTasks, data \in LifecycleUpdateDatas :
          UpdateTask(id, data, "a")
    \/ AdvanceDay

SpecTask == Init /\ [][NextTask]_vars

-----------------------------------------------------------------------------
(* SpecFail: updates that fail at each check of update_task_service, each  *)
(* followed by the end of its request                                      *)

FailingUpdateDatas ==
    {[status |-> IN_PROGRESS],
     [status |-> BLOCKED],
     [progress |-> 101],
     [priority |-> "super-high"],
     [group_id |-> 1],
     [assignee |-> "ghost"],
     [deadline |-> PastDate],
     [status |-> DONE, progress |-> 101],
     [status |-> DONE, priority |-> "super-high"],
     [status |-> DONE, group_id |-> 1],
     [status |-> DONE, assignee |-> "ghost"],
     [notes |-> "n", deadline |-> PastDate]}

NextFail ==
    \/ \E data \in LifecycleCreateDatas :
          nextTaskId <= MaxLifecycleTasks /\ CreateTask(data)
    \/ \E id \in 1..MaxLifecycleTasks, data \in FailingUpdateDatas :
          UpdateTask(id, data, "a")
    \/ Teardown
    \/ AdvanceDay

SpecFail == Init /\ [][NextFail]_vars

-----------------------------------------------------------------------------
(* SpecCreate: task creation, repeated with the same and with other keys *)

\* Two inputs with the same (title, deadline, user_id, group_id) and different
\* other fields, and one with the key and neither kind nor priority
DedupDatas ==
    UNION {{TaskData(t, day, "a", NoGroup),
            [title |-> t, deadline |-> DateString(2025, 1, day),
             kind |-> "exam", priority |-> "low", user_id |-> "a",
             group_id |-> NoGroup, status |-> IN_PROGRESS, progress |-> 50,
             assignee |-> "b", notes |-> "n"],
            [title |-> t, deadline |-> DateString(2025, 1, day),
             user_id |-> "a", group_id |-> NoGroup]}
           : t \in {"Homework", "Essay"}, day \in {1, MaxDay}}

NextCreate ==
    \/ \E data \in DedupDatas : CreateTask(data)
    \/ AdvanceDay

SpecCreate == Init /\ [][NextCreate]_vars

-----------------------------------------------------------------------------
(* Claims on the task engine *)

\* The Task object of the session after the step
ObjNext(id) == IF id \in DOMAIN pending' THEN pending'[id] ELSE tasks'[id]

\* The transition table of the specification, as pairs
TransitionTable ==
    {<<TODO, IN_PROGRESS>>, <<IN_PROGRESS, DONE>>, <<IN_PROGRESS, BLOCKED>>,
     <<IN_PROGRESS, TODO>>, <<BLOCKED, IN_PROGRESS>>, <<DONE, IN_PROGRESS>>,
     <<DONE, TODO>>}

\* A step of updateTask on an existing task whose input holds a status
StatusUpdateStep ==
    /\ last'.op = "updateTask"
    /\ last'.task \in DOMAIN tasks
    /\ "status" \in DOMAIN last'.data

\* C3 as stated: for a task in one of the four statuses whose deadline is not
\* past, an update with only an incoming status n other than the current one
\* succeeds and stores n when the pair is in the table, and fails with
\* ValidationError for every other n.
C3_AsStated ==
    [][ (StatusUpdateStep /\ DOMAIN last'.data = {"status"}) =>
          LET id == last'.task
              s == Obj(id).status
              n == last'.data["status"]
          IN  (s \in Statuses /\ ~DateLT(Obj(id).deadline, today) /\ n # s) =>
                 IF <<s, n>> \in TransitionTable
                 THEN last'.err = OK /\ tasks'[id].status = n
                 ELSE last'.err = ValueError ]_vars

\* C3, amended: with n the incoming status lower-cased and with inprogress
\* written in_progress, and the incoming status not exactly expired: when n
\* differs from the current status, a pair outside the table fails with
\* ValidationError and changes nothing, and a pair of the table succeeds and
\* stores n when the input holds nothing but the status.  An incoming status
\* of exactly expired succeeds and leaves the status as it is.
C3_TransitionTable ==
    [][ StatusUpdateStep =>
          LET id == last'.task
              s == Obj(id).status
              raw == last'.data["status"]
              n == NormalizeNew(raw)
              alone == DOMAIN last'.data = {"status"}
          IN  (s \in Statuses /\ ~DateLT(Obj(id).deadline, today)) =>
                 /\ (raw # EXPIRED /\ n # s /\ <<s, n>> \notin TransitionTable) =>
                       /\ last'.err = ValueError
                       /\ tasks' = tasks /\ pending' = pending
                 /\ (raw # EXPIRED /\ n # s /\ <<s, n>> \in TransitionTable /\ alone) =>
                       /\ last'.err = OK
                       /\ tasks'[id].status = n
                 /\ (raw = EXPIRED /\ alone) =>
                       /\ last'.err = OK
                       /\ tasks'[id].status = s ]_vars

\* A done task (progress 100) was sent back to in_progress by the input
\* inProgress, stored as in_progress.
C3_Witness ==
    /\ last.op = "updateTask" /\ last.err = OK
    /\ last.data = [status |-> CamelInProgress]
    /\ last.task \in DOMAIN tasks
    /\ tasks[last.task].status = IN_PROGRESS
    /\ tasks[last.task].progress = 100

\* C4 as stated: an updateTask that fails leaves every field of the task as
\* it was before the call.
C4_FailureAtomicity ==
    [][ (last'.op = "updateTask" /\ last'.err # OK /\ last'.task \in DOMAIN tasks) =>
          ObjNext(last'.task) = Obj(last'.task) ]_vars

\* C5 as stated: after a successful updateTask that takes a task into done,
\* the stored progress is 100.
C5_DoneForcesProgress ==
    [][ (/\ last'.op = "updateTask" /\ last'.err = OK
         /\ last'.task \in DOMAIN tasks
         /\ Obj(last'.task).status # DONE
         /\ tasks'[last'.task].status = DONE) =>
          tasks'[last'.task].progress = 100 ]_vars

\* The tasks with the key of a createTask input
SameKey(data) ==
    {id \in DOMAIN tasks :
        /\ tasks[id].title = data["title"]
        /\ tasks[id].deadline = <<data["deadline"].year, data["deadline"].month,
                                  data["deadline"].day>>
        /\ tasks[id].user_id = Get(data, "user_id", None)
        /\ tasks[id].group_id = Get(data, "group_id", NoGroup)}

RepeatedCreateStep ==
    /\ last'.op = "createTask"
    /\ {"title", "deadline"} \subseteq DOMAIN last'.data
    /\ SameKey(last'.data) # {}

\* C7 as stated: a createTask whose (title, deadline, user_id, group_id) is
\* that of an existing task returns that task and adds and changes nothing.
C7_AsStated ==
    [][ RepeatedCreateStep =>
          /\ last'.err = OK
          /\ last'.task \in SameKey(last'.data)
          /\ tasks' = tasks /\ nextTaskId' = nextTaskId ]_vars

\* C7, amended: such a createTask returns the existing task when its deadline
\* is not before the current date, and fails with ValidationError when it is;
\* in both cases no task is added and no field of a task changes.
C7_IdempotentCreate ==
    [][ RepeatedCreateStep =>
          /\ tasks' = tasks /\ nextTaskId' = nextTaskId /\ pending' = pending
          /\ ~last'.commit
          /\ IF DateLT(StrpTime(last'.data["deadline"]), today)
             THEN last'.err = ValueError
             ELSE last'.err = OK /\ last'.task \in SameKey(last'.data) ]_vars

\* A second createTask with the key of a homework task and another kind has
\* returned the first task, whose kind is still homework.
C7_Witness ==
    /\ last.op = "createTask" /\ last.err = OK /\ ~last.commit
    /\ "kind" \in DOMAIN last.data /\ last.data["kind"] = "exam"
    /\ last.task \in DOMAIN tasks
    /\ tasks[last.task].kind = "homework"
    /\ tasks[last.task].progress = 0

-----------------------------------------------------------------------------
(* SpecConc: two requests in steps, next to whole calls that set groups up *)

ConcTaskDatas ==
    {TaskData("Homework", 1, "a", NoGroup),
     [title |-> "Homework", deadline |-> DateString(2025, 1, 1), kind |-> "exam",
      priority |-> "low", user_id |-> "a", group_id |-> NoGroup]}

ConcGroupIds == 1..MaxConcGroups

\* The groups are set up by whole calls, then the two requests run
NextConc ==
    \/ \E creator \in Pair :
          procs = <<>> /\ nextGroupId <= MaxConcGroups /\ CreateGroup(GroupData, creator)
    \/ \E u \in Pair, g \in ConcGroupIds : procs = <<>> /\ JoinGroup(u, g)
    \/ \E p \in Pair, t \in Pair, g \in ConcGroupIds :
          procs = <<>> /\ PromoteToAdmin(p, t, g)
    \/ \E p \in Requests, u \in Pair, g \in ConcGroupIds : LeaveBegin(p, u, g)
    \/ \E p \in Requests : LeaveCount(p)
    \/ \E p \in Requests : LeaveWrite(p)
    \/ \E p \in Requests, u \in Pair, g \in ConcGroupIds : JoinBegin(p, u, g)
    \/ \E p \in Requests : JoinInsert(p)
    \/ \E p \in Requests, data \in ConcTaskDatas : CreateTaskBegin(p, data)
    \/ \E p \in Requests : CreateTaskInsert(p)

SpecConc == Init /\ [][NextConc]_vars

-----------------------------------------------------------------------------
(* Claims on interleaved requests, under SpecConc *)

\* Two requests of the same operation on the same group
BothOn(op, g) ==
    /\ Requests \subseteq DOMAIN procs
    /\ \A p \in Requests : procs[p].op = op /\ procs[p].group = g

\* C8 as stated: while two admins of a group each run leaveGroup, with the
\* count of other admins and the delete as separate steps, the group never
\* exists with no admin membership.
C8_LastAdminInterleaved ==
    \A g \in DOMAIN groups :
        (/\ BothOn("leaveGroup", g)
         /\ \A p \in Requests : procs[p].role = "admin"
         /\ procs["r1"].user # procs["r2"].user)
        => AdminsOf(memberships, g) # {}

\* C9: whatever the interleaving of two joinGroup(u, g), table
\* group_memberships holds at most one row for a pair (u, g), and at most one
\* of two requests for the same pair commits an insert.
C9_MembershipUniqueInterleaved ==
    /\ \A u \in Pair, g \in ConcGroupIds :
          CountRows(memberships, MembershipsOf(memberships, u, g)) <= 1
    /\ \A g \in ConcGroupIds :
          (BothOn("joinGroup", g) /\ procs["r1"].user = procs["r2"].user)
          => ~(procs["r1"].commit /\ procs["r2"].commit)

\* Two joinGroup requests for one pair both read no membership; one has
\* inserted the row and the other's insert was refused.
C9_Witness ==
    /\ \E g \in DOMAIN groups :
          /\ BothOn("joinGroup", g)
          /\ procs["r1"].user = procs["r2"].user
          /\ CountRows(memberships,
                       MembershipsOf(memberships, procs["r1"].user, g)) = 1
    /\ procs["r1"].pc = "done" /\ procs["r1"].commit
    /\ procs["r2"].pc = "done" /\ procs["r2"].err = IntegrityError

\* C10 as stated: when two createTask requests with the same (title,
\* deadline, user_id, group_id) interleave, at most one task with that key is
\* stored and both return the same task.
C10_TaskDedupInterleaved ==
    (/\ BothOn("createTask", NoGroup)
     /\ \A p \in Requests : procs[p].pc = "done" /\ procs[p].err = OK
     /\ SameKey(procs["r1"].data) = SameKey(procs["r2"].data))
    => /\ Cardinality(SameKey(procs["r1"].data)) <= 1
       /\ procs["r1"].task = procs["r2"].task

-----------------------------------------------------------------------------
(* Claims on the status step, under SpecTask *)

\* C11: an updateTask that takes a task from todo, blocked or done into
\* in_progress fails with ValidationError and changes nothing when the
\* task's deadline is before today, and succeeds and stores in_progress when
\* the deadline is today or later.
C11_PastDeadlineStartGuard ==
    [][ (/\ StatusUpdateStep
         /\ Obj(last'.task).status \in {TODO, BLOCKED, DONE}
         /\ last'.data["status"] # EXPIRED
         /\ NormalizeNew(last'.data["status"]) = IN_PROGRESS) =>
          IF DateLT(Obj(last'.task).deadline, today)
          THEN /\ last'.err = ValueError
               /\ tasks' = tasks /\ pending' = pending
          ELSE /\ last'.err = OK
               /\ tasks'[last'.task].status = IN_PROGRESS ]_vars

\* A blocked task whose deadline has passed was refused the start and is
\* still blocked.
C11_Witness ==
    /\ last.op = "updateTask" /\ last.err = ValueError
    /\ "status" \in DOMAIN last.data /\ last.data["status"] = IN_PROGRESS
    /\ last.task \in DOMAIN tasks
    /\ tasks[last.task].status = BLOCKED
    /\ DateLT(tasks[last.task].deadline, today)
    /\ pending = <<>>

\* C12 as stated: an updateTask whose normalized incoming status equals the
\* task's current status, and whose input holds nothing else, succeeds and
\* leaves the task as it was, whatever the deadline and the progress.
C12_SelfTransitionNoOp ==
    [][ (/\ StatusUpdateStep
         /\ DOMAIN last'.data = {"status"}
         /\ last'.data["status"] # EXPIRED
         /\ Obj(last'.task).status \in Statuses
         /\ NormalizeNew(last'.data["status"]) = Obj(last'.task).status) =>
          /\ last'.err = OK
          /\ tasks'[last'.task] = tasks[last'.task] ]_vars

-----------------------------------------------------------------------------
(* SpecRoles: the roles of three users in the groups *)

RoleGroupIds == 1..MaxRoleGroups

NextRoles ==
    \/ \E creator \in Users :
          nextGroupId <= MaxRoleGroups /\ CreateGroup(GroupData, creator)
    \/ \E u \in Users, g \in RoleGroupIds : JoinGroup(u, g)
    \/ \E u \in Users, g \in RoleGroupIds : LeaveGroup(u, g)
    \/ \E p \in Users, t \in Users, g \in RoleGroupIds : PromoteToAdmin(p, t, g)
    \/ \E k \in Users, t \in Users, g \in RoleGroupIds : KickUser(k, t, g)

SpecRoles == Init /\ [][NextRoles]_vars

-----------------------------------------------------------------------------
(* Claims on kick and promote *)

\* C13: kickUser(k, t, g) never removes a membership of role admin; when t
\* is an admin of g, or k is t, it fails with PermissionError and table
\* group_memberships is unchanged.
C13_AdminsNotKicked ==
    [][ last'.op = "kickUser" =>
          /\ \A r \in BagToSet(memberships) :
                r.role = "admin" => CopiesIn(r, memberships') = CopiesIn(r, memberships)
          /\ (IsAdmin(memberships, last'.target, last'.group) \/ last'.user = last'.target)
                => /\ last'.err = PermissionError
                   /\ memberships' = memberships ]_vars

\* An admin tried to kick the other admin of the group: refused, and both
\* are still admins.
C13_Witness ==
    /\ last.op = "kickUser" /\ last.err = PermissionError
    /\ last.user # last.target
    /\ IsAdmin(memberships, last.user, last.group)
    /\ IsAdmin(memberships, last.target, last.group)

\* C14: kickUser(k, t, g) by a k with no membership of g, or with role
\* member, fails with PermissionError, whether or not t is a member of g; by
\* an admin k on a t with no membership of g it fails with NotFoundError.
\* Neither removes anything.
C14_KickRequiresAdmin ==
    [][ last'.op = "kickUser" =>
          LET k == last'.user
              t == last'.target
              g == last'.group
              kAdmin == \E r \in AdminsOf(memberships, g) : r.user_id = k
          IN  /\ ~kAdmin => /\ last'.err = PermissionError
                            /\ memberships' = memberships
              /\ (kAdmin /\ RowsOfGroup(memberships, g) \cap MembershipsOf(memberships, t, g) = {})
                    => /\ last'.err = NotFound
                       /\ memberships' = memberships ]_vars

\* A plain member tried to kick another member of the group: refused, and
\* the target is still there.
C14_Witness ==
    /\ last.op = "kickUser" /\ last.err = PermissionError
    /\ last.user # last.target
    /\ MembershipsOf(memberships, last.user, last.group)
          = {MembershipRow(last.user, last.group, "member")}
    /\ MembershipsOf(memberships, last.target, last.group)
          = {MembershipRow(last.target, last.group, "member")}

\* C15: promoteToAdmin(p, t, g) fails with PermissionError when p has no
\* admin membership of g, else with NotFoundError when t has no membership of
\* g, and changes nothing in both cases; otherwise it succeeds, t's row of g
\* has role admin, and every other row, every group and every task is as
\* before.
C15_Promote ==
    [][ last'.op = "promoteToAdmin" =>
          LET p == last'.user
              t == last'.target
              g == last'.group
          IN  IF ~\E r \in AdminsOf(memberships, g) : r.user_id = p
              THEN /\ last'.err = PermissionError
                   /\ UNCHANGED <<groups, memberships, tasks>>
              ELSE IF MembershipsOf(memberships, t, g) = {}
              THEN /\ last'.err = NotFound
                   /\ UNCHANGED <<groups, memberships, tasks>>
              ELSE /\ last'.err = OK
                   /\ BagToSet(memberships') =
                         (BagToSet(memberships) \ MembershipsOf(memberships, t, g))
                            \cup {MembershipRow(t, g, "admin")}
                   /\ BagCardinality(memberships') = BagCardinality(memberships)
                   /\ UNCHANGED <<groups, tasks>> ]_vars

\* An admin has promoted another member while a third user is a plain member
\* of the group: the target is an admin, the third user is not.
C15_Witness ==
    /\ last.op = "promoteToAdmin" /\ last.err = OK
    /\ last.user # last.target
    /\ IsAdmin(memberships, last.target, last.group)
    /\ \E r \in RowsOfGroup(memberships, last.group) : r.role = "member"

-----------------------------------------------------------------------------
(* Claims on the life of a membership, under SpecRoles *)

HasRole(ms, u, g, role) == MembershipRow(u, g, role) \in BagToSet(ms)

\* C16: an admin membership of (u, g) ceases to exist only in a step of
\* leaveGroup(u, g); no join, promote, kick or leaveGroup of another user
\* removes it.
C16_AdminLeavesVoluntarily ==
    [][ \A u \in Users, g \in RoleGroupIds :
          (HasRole(memberships, u, g, "admin") /\ ~HasRole(memberships', u, g, "admin")) =>
             /\ last'.op = "leaveGroup" /\ last'.err = OK
             /\ last'.user = u /\ last'.group = g ]_vars

\* An admin has left a group that keeps another admin and a plain member.
C16_Witness ==
    /\ last.op = "leaveGroup" /\ last.err = OK /\ last.role = "admin"
    /\ MembershipsOf(memberships, last.user, last.group) = {}
    /\ AdminsOf(memberships, last.group) # {}
    /\ \E r \in RowsOfGroup(memberships, last.group) : r.role = "member"

\* C17 as stated: a membership of role member of (u, g) ceases to exist only
\* in a step of leaveGroup(u, g) or of a successful kickUser(k, u, g) by an
\* admin k of g.
C17_AsStated ==
    [][ \A u \in Users, g \in RoleGroupIds :
          (HasRole(memberships, u, g, "member") /\ MembershipsOf(memberships', u, g) = {}) =>
             \/ /\ last'.op = "leaveGroup" /\ last'.err = OK
                /\ last'.user = u /\ last'.group = g
             \/ /\ last'.op = "kickUser" /\ last'.err = OK
                /\ last'.target = u /\ last'.group = g
                /\ HasRole(memberships, last'.user, g, "admin") ]_vars

\* C17, amended: such a membership ceases to exist only in a step of
\* leaveGroup(u, g), of a successful kickUser(k, u, g) by an admin k of g, or
\* of leaveGroup(v, g) by the only admin v of g, which deletes the group with
\* all its memberships.
C17_MemberRemoval ==
    [][ \A u \in Users, g \in RoleGroupIds :
          (HasRole(memberships, u, g, "member") /\ MembershipsOf(memberships', u, g) = {}) =>
             \/ /\ last'.op = "leaveGroup" /\ last'.err = OK
                /\ last'.user = u /\ last'.group = g
             \/ /\ last'.op = "kickUser" /\ last'.err = OK
                /\ last'.target = u /\ last'.group = g
                /\ HasRole(memberships, last'.user, g, "admin")
             \/ /\ last'.op = "leaveGroup" /\ last'.err = OK
                /\ last'.group = g
                /\ AdminsOf(memberships, g) = {MembershipRow(last'.user, g, "admin")}
                /\ g \in DOMAIN groups /\ g \notin DOMAIN groups'
                /\ RowsOfGroup(memberships', g) = {} ]_vars

\* An admin has kicked a plain member out of a group that keeps another
\* plain member.
C17_Witness ==
    /\ last.op = "kickUser" /\ last.err = OK
    /\ MembershipsOf(memberships, last.target, last.group) = {}
    /\ HasRole(memberships, last.user, last.group, "admin")
    /\ \E r \in RowsOfGroup(memberships, last.group) : r.role = "member"

\* C18: (u, g) comes to hold role admin only in a createGroup by u that
\* creates g, or in a successful promoteToAdmin on the member u of g by an
\* admin of g; joinGroup never yields an admin, and no step turns an admin
\* row into a member row.
C18_RoleAcquisition ==
    [][ /\ \A u \in Users, g \in RoleGroupIds :
             (~HasRole(memberships, u, g, "admin") /\ HasRole(memberships', u, g, "admin")) =>
                \/ /\ last'.op = "createGroup" /\ last'.err = OK
                   /\ last'.user = u /\ last'.group = g
                   /\ g \notin DOMAIN groups
                   /\ MembershipsOf(memberships, u, g) = {}
                \/ /\ last'.op = "promoteToAdmin" /\ last'.err = OK
                   /\ last'.target = u /\ last'.group = g
                   /\ HasRole(memberships, u, g, "member")
                   /\ HasRole(memberships, last'.user, g, "admin")
        /\ last'.op = "joinGroup" =>
              \A g \in RoleGroupIds : AdminsOf(memberships', g) = AdminsOf(memberships, g)
        /\ \A u \in Users, g \in RoleGroupIds :
              HasRole(memberships, u, g, "admin") => ~HasRole(memberships', u, g, "member")
      ]_vars

\* A user has joined a group of two admins, one of them promoted: the new
\* row has role member.
C18_Witness ==
    /\ last.op = "joinGroup" /\ last.err = OK /\ last.commit
    /\ HasRole(memberships, last.user, last.group, "member")
    /\ Cardinality(AdminsOf(memberships, last.group)) = 2

-----------------------------------------------------------------------------
(* SpecAssign: tasks moved between groups and assigned to users *)

AssignGroupIds == 1..MaxAssignGroups

AssignTaskDatas ==
    {TaskData("Homework", MaxDay, "a", g) : g \in {NoGroup} \cup AssignGroupIds}

\* The editor of the route is a row of users; a direct call may pass none
Editors == {"a", None}

\* A user, and an id with no users row
Assignees == {"b", "ghost"}

AssignUpdateDatas ==
    {[group_id |-> g] : g \in {NoGroup} \cup AssignGroupIds}
    \cup {[assignee |-> x] : x \in Assignees}
    \cup {[assignee |-> x, group_id |-> g] :
             x \in Assignees, g \in {NoGroup} \cup AssignGroupIds}

NextAssign ==
    \/ \E creator \in Pair :
          nextGroupId <= MaxAssignGroups /\ CreateGroup(GroupData, creator)
    \/ \E u \in Pair, g \in AssignGroupIds : JoinGroup(u, g)
    \/ \E data \in AssignTaskDatas :
          nextTaskId <= MaxLifecycleTasks /\ CreateTask(data)
    \/ \E id \in 1..MaxLifecycleTasks, data \in AssignUpdateDatas, editor \in Editors :
          UpdateTask(id, data, editor)

SpecAssign == Init /\ [][NextAssign]_vars

-----------------------------------------------------------------------------
(* Claims on group and assignee authorization, under SpecAssign *)

\* A step of updateTask on an existing task whose input holds neither
\* status, progress nor priority
AssignStep ==
    /\ last'.op = "updateTask"
    /\ last'.task \in DOMAIN tasks
    /\ DOMAIN last'.data \cap {"status", "progress", "priority"} = {}

C20_AssigneeResultingGroup ==
    [][ (/\ AssignStep
         /\ "assignee" \in DOMAIN last'.data
         /\ last'.data["assignee"] # None
         /\ \/ "group_id" \notin DOMAIN last'.data
            \/ last'.data["group_id"] = NoGroup
            \/ /\ last'.user # None
               /\ MembershipsOf(memberships, last'.user, last'.data["group_id"]) # {}) =>
          LET id == last'.task
              a == last'.data["assignee"]
              resulting == IF "group_id" \in DOMAIN last'.data
                           THEN last'.data["group_id"]
                           ELSE Obj(id).group_id
          IN  IF \/ a \notin Users
                 \/ resulting # NoGroup /\ MembershipsOf(memberships, a, resulting) = {}
              THEN /\ last'.err = ValueError
                   /\ tasks' = tasks /\ pending' = pending
              ELSE /\ last'.err = OK
                   /\ tasks'[id].assignee = a
                   /\ tasks'[id].group_id = resulting ]_vars

\* A task was moved into a group and assigned to a member of that group, who
\* is not the editor, in one update.
C20_Witness ==
    /\ last.op = "updateTask" /\ last.err = OK
    /\ {"assignee", "group_id"} \subseteq DOMAIN last.data
    /\ last.data["group_id"] # NoGroup
    /\ last.task \in DOMAIN tasks
    /\ tasks[last.task].group_id = last.data["group_id"]
    /\ tasks[last.task].assignee = last.data["assignee"]
    /\ last.data["assignee"] # last.user
    /\ MembershipsOf(memberships, last.data["assignee"], last.data["group_id"]) # {}

\* A step in which createTask or updateTask has committed a task
TaskWriteStep ==
    /\ last'.op \in {"createTask", "updateTask"}
    /\ last'.err = OK /\ last'.commit
    /\ last'.task \in DOMAIN tasks'

\* C21 as stated: whenever createTask or updateTask succeeds for the acting
\* user e (the user_id of a createTask, the editor of an updateTask) and the
\* resulting task has a group g, e has a membership of g.
C21_EditorMembership ==
    [][ (TaskWriteStep /\ tasks'[last'.task].group_id # NoGroup) =>
          /\ last'.user # None
          /\ MembershipsOf(memberships, last'.user, tasks'[last'.task].group_id) # {}
      ]_vars

\* C22 as stated: whenever createTask or updateTask succeeds and the
\* resulting task has a group g and an assignee a, a has a membership of g.
C22_AssigneeMembership ==
    [][ (/\ TaskWriteStep
         /\ tasks'[last'.task].group_id # NoGroup
         /\ tasks'[last'.task].assignee # None) =>
          MembershipsOf(memberships, tasks'[last'.task].assignee,
                        tasks'[last'.task].group_id) # {}
      ]_vars

-----------------------------------------------------------------------------
(* SpecDomain: status, priority and progress given to createTask and to    *)
(* updateTask                                                              *)

DomainCreateDatas ==
    {TaskData("Homework", MaxDay, "a", NoGroup)}
    \cup {[title |-> "Homework", deadline |-> DateString(2025, 1, MaxDay),
           kind |-> "homework", priority |-> x[1], status |-> x[2],
           progress |-> x[3], user_id |-> "a", group_id |-> NoGroup] :
             x \in {<<"urgent", TODO, 0>>, <<"low", EXPIRED, 0>>,
                    <<"low", CANCELLED, 0>>, <<"low", TODO, 101>>}}

DomainUpdateDatas ==
    {[progress |-> n] : n \in {-1, 0, 100, 101}}
    \cup {[priority |-> x] : x \in VALID_PRIORITIES \cup {"super-high"}}
    \cup {[priority |-> "medium", progress |-> 101],
          [status |-> IN_PROGRESS], [status |-> DONE]}

NextDomain ==
    \/ \E data \in DomainCreateDatas :
          nextTaskId <= MaxLifecycleTasks /\ CreateTask(data)
    \/ \E id \in 1..MaxLifecycleTasks, data \in DomainUpdateDatas :
          UpdateTask(id, data, "a")

SpecDomain == Init /\ [][NextDomain]_vars

-----------------------------------------------------------------------------
(* Claims on the domains of task fields, under SpecDomain *)

\* C23 as stated: every stored task has a status among todo, in_progress,
\* blocked and done, a priority among low, medium and high, and a progress
\* from 0 to 100, whatever createTask was given.
C23_TaskDomain ==
    \A id \in DOMAIN tasks :
        /\ tasks[id].status \in {TODO, IN_PROGRESS, BLOCKED, DONE}
        /\ tasks[id].priority \in {"low", "medium", "high"}
        /\ tasks[id].progress \in 0..100

\* C24: an updateTask holding only progress and priority fails with
\* ValidationError and changes nothing when the progress is below 0 or above
\* 100 or the priority is none of low, medium, high; otherwise it succeeds
\* and stores the values given.
C24_UpdateRejectsOutOfDomain ==
    [][ (/\ last'.op = "updateTask"
         /\ last'.task \in DOMAIN tasks
         /\ DOMAIN last'.data # {}
         /\ DOMAIN last'.data \subseteq {"progress", "priority"}) =>
          LET id == last'.task
              d == last'.data
              bad == \/ "progress" \in DOMAIN d /\ (d["progress"] < 0 \/ d["progress"] > 100)
                     \/ "priority" \in DOMAIN d /\ d["priority"] \notin {"low", "medium", "high"}
          IN  IF bad
              THEN /\ last'.err = ValueError
                   /\ tasks' = tasks /\ pending' = pending
              ELSE /\ last'.err = OK
                   /\ "progress" \in DOMAIN d => tasks'[id].progress = d["progress"]
                   /\ "priority" \in DOMAIN d => tasks'[id].priority = d["priority"]
      ]_vars

\* A task of progress 100 and priority medium was refused the progress 101.
C24_Witness ==
    /\ last.op = "updateTask" /\ last.err = ValueError
    /\ last.data = [progress |-> 101]
    /\ last.task \in DOMAIN tasks
    /\ tasks[last.task].progress = 100
    /\ tasks[last.task].priority = "medium"
    /\ pending = <<>>

-----------------------------------------------------------------------------
(* SpecDeadline: deadlines given to createTask and to updateTask as the    *)
(* days pass                                                               *)

DeadlineStrings ==
    {DateString(2025, 1, d) : d \in 1..MaxDay} \cup {PastDate, NoSuchDate}

DeadlineCreateDatas ==
    {[title |-> t, deadline |-> s, kind |-> "homework",
      priority |-> "high", user_id |-> "a", group_id |-> NoGroup] :
        t \in {"Homework", "Essay"}, s \in DeadlineStrings}

DeadlineUpdateDatas ==
    {[deadline |-> s] : s \in DeadlineStrings}
    \cup {[notes |-> "n", deadline |-> s] : s \in DeadlineStrings}

NextDeadline ==
    \/ \E data \in DeadlineCreateDatas :
          nextTaskId <= MaxLifecycleTasks /\ CreateTask(data)
    \/ \E id \in 1..MaxLifecycleTasks, data \in DeadlineUpdateDatas :
          UpdateTask(id, data, "a")
    \/ Teardown
    \/ AdvanceDay

SpecDeadline == Init /\ [][NextDeadline]_vars

-----------------------------------------------------------------------------
(* Claims on deadlines, under SpecDeadline *)

\* The date a 'YYYY-MM-DD' string names
DateOf(s) == <<s.year, s.month, s.day>>

\* C25: a createTask or an updateTask given a deadline before today fails
\* with ValidationError, creating no task and changing none; given a deadline
\* of today or later it succeeds and stores that date.  No step stores a
\* deadline that is before today.
C25_DeadlineGuard ==
    [][ /\ (/\ last'.op = "createTask"
            /\ "deadline" \in DOMAIN last'.data
            /\ ~StrpTimeFails(last'.data["deadline"])) =>
              IF DateLT(DateOf(last'.data["deadline"]), today)
              THEN /\ last'.err = ValueError
                   /\ tasks' = tasks /\ nextTaskId' = nextTaskId
              ELSE /\ last'.err = OK
                   /\ last'.task \in DOMAIN tasks'
                   /\ tasks'[last'.task].deadline = DateOf(last'.data["deadline"])
        /\ (/\ last'.op = "updateTask"
            /\ last'.task \in DOMAIN tasks
            /\ DOMAIN last'.data = {"deadline"}
            /\ ~StrpTimeFails(last'.data["deadline"])) =>
              IF DateLT(DateOf(last'.data["deadline"]), today)
              THEN /\ last'.err = ValueError
                   /\ tasks' = tasks /\ pending' = pending
              ELSE /\ last'.err = OK
                   /\ tasks'[last'.task].deadline = DateOf(last'.data["deadline"])
        /\ (/\ last'.op = "updateTask"
            /\ last'.task \in DOMAIN tasks
            /\ "deadline" \in DOMAIN last'.data
            /\ last'.err # OK) =>
              /\ tasks' = tasks
              /\ ObjNext(last'.task).deadline = Obj(last'.task).deadline
        /\ \A id \in DOMAIN tasks' :
              (id \notin DOMAIN tasks \/ tasks'[id].deadline # tasks[id].deadline)
                 => ~DateLT(tasks'[id].deadline, today)
      ]_vars

\* After the first day, the deadline of a task was moved to the current
\* date.
C25_Witness ==
    /\ last.op = "updateTask" /\ last.err = OK
    /\ DOMAIN last.data = {"deadline"}
    /\ DateOf(last.data["deadline"]) = today
    /\ today # Day(1)
    /\ last.task \in DOMAIN tasks
    /\ tasks[last.task].deadline = today

-----------------------------------------------------------------------------
(* SpecFields: the fields an updateTask writes *)

FieldsUpdateDatas ==
    {[title |-> "Essay", kind |-> "exam", priority |-> "low", user_id |-> "b",
      assignee |-> "b", notes |-> "n"],
     [title |-> None, kind |-> None, user_id |-> None, assignee |-> None,
      notes |-> None],
     [status |-> CamelInProgress, progress |-> 50],
     [status |-> DONE],
     [status |-> DONE, progress |-> 50],
     [status |-> EXPIRED],
     [group_id |-> NoGroup]}
    \cup {[group_id |-> g] : g \in AssignGroupIds}

\* The editor matters to the group check alone
FieldsEditors(data) == IF "group_id" \in DOMAIN data THEN Editors ELSE {None}

NextFields ==
    \/ nextGroupId <= MaxAssignGroups /\ CreateGroup(GroupData, "a")
    \/ \E data \in AssignTaskDatas :
          nextTaskId <= MaxLifecycleTasks /\ CreateTask(data)
    \/ \E id \in 1..MaxLifecycleTasks, data \in FieldsUpdateDatas :
          \E editor \in FieldsEditors(data) : UpdateTask(id, data, editor)

SpecFields == Init /\ [][NextFields]_vars

-----------------------------------------------------------------------------
(* Claims on field application, under SpecFields *)

\* A successful updateTask on an existing task
UpdatedStep ==
    /\ last'.op = "updateTask" /\ last'.err = OK
    /\ last'.task \in DOMAIN tasks

\* A field of the input with a non-null value
Given(d, f) == f \in DOMAIN d /\ (f \in {"status", "progress"} \/ d[f] # None)

\* The fields other than status, progress and group_id are written exactly
\* when given, and group_id whenever present
PlainFieldsApplied(old, new, d) ==
    /\ \A f \in {"title", "kind", "priority", "user_id", "assignee", "notes"} :
          new[f] = IF Given(d, f) THEN d[f] ELSE old[f]
    /\ new.group_id = IF "group_id" \in DOMAIN d THEN d["group_id"] ELSE old.group_id

\* C26 as stated: in a successful updateTask each of title, kind, priority,
\* status, user_id, assignee, notes and progress is overwritten exactly when
\* the input holds it with a non-null value (the status in its normalized
\* form) and is unchanged otherwise; group_id is overwritten whenever the
\* input holds it, null included.
C26_AsStated ==
    [][ UpdatedStep =>
          LET old == tasks[last'.task]
              new == tasks'[last'.task]
              d == last'.data
          IN  /\ PlainFieldsApplied(old, new, d)
              /\ new.status = IF Given(d, "status")
                              THEN NormalizeNew(d["status"]) ELSE old.status
              /\ new.progress = IF Given(d, "progress")
                                THEN d["progress"] ELSE old.progress ]_vars

\* C26, amended: as stated for title, kind, priority, user_id, assignee,
\* notes and group_id; the status is overwritten, with its normalized form,
\* when the input holds one that is not exactly expired, and is unchanged
\* otherwise; the progress is overwritten when the input holds one, becomes
\* 100 when the input holds no progress and a status normalized to done, and
\* is unchanged otherwise.
C26_FieldApplication ==
    [][ UpdatedStep =>
          LET old == tasks[last'.task]
              new == tasks'[last'.task]
              d == last'.data
              statusKept == "status" \in DOMAIN d /\ d["status"] # EXPIRED
          IN  /\ PlainFieldsApplied(old, new, d)
              /\ new.status = IF statusKept
                              THEN NormalizeNew(d["status"]) ELSE old.status
              /\ new.progress =
                    IF Given(d, "progress") THEN d["progress"]
                    ELSE IF statusKept /\ NormalizeNew(d["status"]) = DONE THEN 100
                    ELSE old.progress ]_vars

\* An update with a null assignee and null notes has succeeded, and the
\* assignee b and the notes are still stored.
C26_Witness ==
    /\ last.op = "updateTask" /\ last.err = OK
    /\ "assignee" \in DOMAIN last.data /\ last.data["assignee"] = None
    /\ last.task \in DOMAIN tasks
    /\ tasks[last.task].assignee = "b"
    /\ tasks[last.task].notes = "n"

-----------------------------------------------------------------------------
(* Claims on group creation and joining, under Spec *)

\* C27: a successful createGroup(data, c) adds one group and the membership
\* (c, that group, admin) in one commit, and changes no other group,
\* membership or task; a createGroup that fails, as every one lacking name,
\* groupNumber or inviteLink does, adds neither a group nor a membership.
C27_CreateGroupAtomic ==
    [][ last'.op = "createGroup" =>
          \A data \in GroupDatas :
             CreateGroup(data, last'.user) =>
                /\ ~(GroupKeys \subseteq DOMAIN data) => last'.err = KeyError
                /\ IF last'.err = OK
                   THEN /\ last'.commit
                        /\ last'.group \notin DOMAIN groups
                        /\ DOMAIN groups' = DOMAIN groups \cup {last'.group}
                        /\ \A g \in DOMAIN groups : groups'[g] = groups[g]
                        /\ groups'[last'.group].name = data["name"]
                        /\ memberships' =
                              memberships (+)
                              SetToBag({MembershipRow(last'.user, last'.group, "admin")})
                        /\ tasks' = tasks
                   ELSE /\ groups' = groups
                        /\ memberships' = memberships
                        /\ tasks' = tasks ]_vars

\* A second group has just been created, and its creator is its admin.
C27_Witness ==
    /\ last.op = "createGroup" /\ last.err = OK
    /\ Cardinality(DOMAIN groups) > 1
    /\ HasRole(memberships, last.user, last.group, "admin")

\* No membership row for the pair
NoRowFor(ms, u, g) == ~\E r \in BagToSet(ms) : r.user_id = u /\ r.group_id = g

\* C28: joinGroup(u, g) of an existing user into an existing group, with no
\* membership for the pair, succeeds and adds exactly the one membership
\* (u, g, member); with an unknown user, or an unknown group, it fails with
\* the not-found error and the memberships are unchanged.
C28_JoinGroup ==
    [][ last'.op = "joinGroup" =>
          LET u == last'.user
              g == last'.group
          IN  /\ (u \in Users /\ g \in DOMAIN groups /\ NoRowFor(memberships, u, g)) =>
                    /\ last'.err = OK /\ last'.commit
                    /\ memberships' =
                          memberships (+) SetToBag({MembershipRow(u, g, "member")})
              /\ (u \notin Users \/ g \notin DOMAIN groups) =>
                    /\ last'.err = NotFound /\ ~last'.commit
                    /\ memberships' = memberships
              /\ groups' = groups ]_vars

\* A user has just joined a group of another user as a member.
C28_Witness ==
    /\ last.op = "joinGroup" /\ last.err = OK /\ last.commit
    /\ CopiesIn(MembershipRow(last.user, last.group, "member"), memberships) = 1
    /\ AdminsOf(memberships, last.group) # {}

\* A successful membership operation that leaves its group in place, and
\* the user whose membership it is about
MembershipStep ==
    /\ last'.op \in {"kickUser", "joinGroup", "promoteToAdmin", "leaveGroup"}
    /\ last'.err = OK
    /\ last'.op = "leaveGroup" => last'.group \in DOMAIN groups'
SubjectOf(call) ==
    IF call.op \in {"kickUser", "promoteToAdmin"} THEN call.target ELSE call.user

\* C29: a successful kickUser(k, t, g) deletes the one membership (t, g);
\* it, joinGroup, promoteToAdmin and a leaveGroup that does not delete the
\* group leave every membership of another user or another group, every
\* group and every task unchanged, the tasks of g created by or assigned to
\* the removed user included.
C29_MembershipFrame ==
    [][ MembershipStep =>
          LET u == SubjectOf(last')
              g == last'.group
          IN  /\ groups' = groups
              /\ tasks' = tasks
              /\ \A r \in BagToSet(memberships) \cup BagToSet(memberships') :
                    ~(r.user_id = u /\ r.group_id = g) =>
                       CopiesIn(r, memberships') = CopiesIn(r, memberships)
              /\ last'.op = "kickUser" =>
                    /\ NoRowFor(memberships', u, g)
                    /\ BagCardinality(memberships) = BagCardinality(memberships') + 1 ]_vars

\* A member has just been kicked from a group that holds a task created by
\* them, while they are a member of another group.
C29_Witness ==
    /\ last.op = "kickUser" /\ last.err = OK
    /\ \E id \in DOMAIN tasks :
          tasks[id].group_id = last.group /\ tasks[id].user_id = last.target
    /\ \E r \in BagToSet(memberships) : r.user_id = last.target

-----------------------------------------------------------------------------
(* Claims on rejoining, under SpecRoles *)

\* The call before has removed u from g, by a kick or by u's own departure,
\* and g is still there
JustRemoved(u, g) ==
    /\ last.err = OK /\ last.group = g /\ g \in DOMAIN groups
    /\ \/ last.op = "kickUser" /\ last.target = u
       \/ last.op = "leaveGroup" /\ last.user = u

\* C30: a joinGroup(u, g) that follows the kick of u from g, or u's departure
\* from g, with g still existing, succeeds and stores the membership
\* (u, g, member) anew; and whatever came before, a joinGroup of a user with
\* no membership in an existing group ends with the user a member of it.
C30_KickIsNotBan ==
    [][ last'.op = "joinGroup" =>
          LET u == last'.user
              g == last'.group
          IN  /\ JustRemoved(u, g) =>
                    /\ last'.err = OK /\ last'.commit
                    /\ memberships' =
                          memberships (+) SetToBag({MembershipRow(u, g, "member")})
              /\ (NoRowFor(memberships, u, g) /\ g \in DOMAIN groups) =>
                    /\ last'.err = OK
                    /\ HasRole(memberships', u, g, "member") ]_vars

\* A member has just been kicked by the admin of a group that still exists,
\* holds no membership in it, and can call joinGroup for it.
C30_Witness ==
    /\ last.op = "kickUser" /\ last.err = OK
    /\ JustRemoved(last.target, last.group)
    /\ NoRowFor(memberships, last.target, last.group)
    /\ ENABLED JoinGroup(last.target, last.group)

-----------------------------------------------------------------------------
(* SpecList: the task list of a user *)

AttributeError == "AttributeError"

\* group_ids = [m.group.id for m in user.group_memberships]
GroupIdsOfEveryGroup(ms, u) == {r.group_id : r \in BagToSet(ms)}
GroupIdsOf(ms, u) == {r.group_id : r \in {m \in BagToSet(ms) : m.user_id = u}}

\* Task.query.filter((Task.user_id == user_id) | (Task.group_id.in_(group_ids)))
TasksFor(ts, ms, u) ==
    {id \in DOMAIN ts :
        \/ ts[id].user_id = u
        \/ ts[id].group_id # NoGroup /\ ts[id].group_id \in GroupIdsOf(ms, u)}

\* get_tasks_for_user(user_id): the ids of the rows returned are recorded
GetTasksForUser(u) ==
    /\ FreshSession
    /\ IF u \notin Users
       THEN last' = Call("tasksForUser", NotFound, u, None, NoGroup, 0)
       ELSE IF ~(GroupIdsOf(memberships, u) \subseteq DOMAIN groups)
       THEN \* m.group is None
            last' = Call("tasksForUser", AttributeError, u, None, NoGroup, 0)
       ELSE last' = [Call("tasksForUser", OK, u, None, NoGroup, 0)
                        EXCEPT !.data = [ids |-> TasksFor(tasks, memberships, u)]]
    /\ UNCHANGED <<today, groups, nextGroupId, memberships, tasks, nextTaskId,
                   pending, procs>>

ListTaskDatas ==
    {TaskData("Homework", MaxDay, "a", g) : g \in {NoGroup} \cup AssignGroupIds}

NextList ==
    \/ \E creator \in Pair :
          nextGroupId <= MaxAssignGroups /\ CreateGroup(GroupData, creator)
    \/ \E u \in Pair, g \in AssignGroupIds : JoinGroup(u, g)
    \/ \E u \in Pair, g \in AssignGroupIds : LeaveGroup(u, g)
    \/ \E p \in Pair, t \in Pair, g \in AssignGroupIds : PromoteToAdmin(p, t, g)
    \/ \E k \in Pair, t \in Pair, g \in AssignGroupIds : KickUser(k, t, g)
    \/ \E data \in ListTaskDatas : nextTaskId <= MaxGroupTasks /\ CreateTask(data)
    \/ \E u \in UserIds : GetTasksForUser(u)

SpecList == Init /\ [][NextList]_vars

-----------------------------------------------------------------------------
(* Claims on the task list, under SpecList *)

\* u has a membership row for g
MemberOf(ms, u, g) == \E r \in BagToSet(ms) : r.user_id = u /\ r.group_id = g

\* C31: tasksForUser(u) of an existing user returns exactly the tasks of the
\* current state created by u or belonging to a group u holds a membership
\* in, and changes nothing; right after u has left or been kicked from g it
\* returns no task of g that u did not create; it returns no task of a group
\* that does not exist; for an unknown user it fails with the not-found
\* error.
C31_TasksForUser ==
    [][ last'.op = "tasksForUser" =>
          LET u == last'.user
          IN  /\ <<groups', memberships', tasks'>> = <<groups, memberships, tasks>>
              /\ IF u \in Users
                 THEN /\ last'.err = OK
                      /\ last'.data.ids =
                            {id \in DOMAIN tasks :
                                \/ tasks[id].user_id = u
                                \/ /\ tasks[id].group_id # NoGroup
                                   /\ MemberOf(memberships, u, tasks[id].group_id)}
                      /\ JustRemoved(u, last.group) =>
                            \A id \in last'.data.ids :
                               tasks[id].group_id = last.group => tasks[id].user_id = u
                      /\ \A id \in last'.data.ids :
                            tasks[id].group_id = NoGroup
                            \/ tasks[id].group_id \in DOMAIN groups
                 ELSE last'.err = NotFound ]_vars

\* The list of b, who holds no membership in the group of a task created by
\* a, has been returned without that task.
C31_Witness ==
    /\ last.op = "tasksForUser" /\ last.err = OK /\ last.user = "b"
    /\ \E id \in DOMAIN tasks :
          /\ tasks[id].group_id \in DOMAIN groups
          /\ tasks[id].user_id = "a"
          /\ ~MemberOf(memberships, "b", tasks[id].group_id)
          /\ id \notin last.data.ids

-----------------------------------------------------------------------------
(* SpecRace: two updateTask requests on one task, in steps *)

StaleDataError == "StaleDataError"

\* update_task_service: task = db.session.get(Task, task_id), the checks and
\* the assignments to the object of the request's own session
UpdateBegin(p, id, data, editor) ==
    /\ p \notin DOMAIN procs
    /\ LET proc == [Proc("updateTask", "commit", editor, NoGroup)
                       EXCEPT !.data = data, !.task = id]
       IN  IF id \notin DOMAIN tasks
           THEN procs' = SetProc(p, Done(proc, NotFound, FALSE))
           ELSE LET r == UpdateResult(tasks[id], data, editor)
                IN  IF r.err \in {OK, IntegrityError}
                    THEN procs' = SetProc(p, proc @@ [read |-> tasks[id], obj |-> r.obj])
                    ELSE procs' = SetProc(p, Done(proc, r.err, FALSE))
    /\ UNCHANGED <<today, groups, nextGroupId, memberships, tasks, nextTaskId,
                   pending, last>>

\* The columns of the UPDATE: the attributes whose value differs from the
\* one loaded
ChangedColumns(proc) == {f \in DOMAIN proc.obj : proc.obj[f] # proc.read[f]}

\* db.session.commit(): UPDATE tasks SET <changed columns> WHERE id = ...
UpdateCommit(p) ==
    /\ p \in DOMAIN procs
    /\ procs[p].op = "updateTask" /\ procs[p].pc = "commit"
    /\ LET id == procs[p].task
           changed == ChangedColumns(procs[p])
       IN  IF changed = {}
           THEN /\ procs' = [procs EXCEPT ![p] = Done(procs[p], OK, TRUE)]
                /\ tasks' = tasks
           ELSE IF id \notin DOMAIN tasks
           THEN /\ procs' = [procs EXCEPT ![p] = Done(procs[p], StaleDataError, FALSE)]
                /\ tasks' = tasks
           ELSE LET row == [f \in DOMAIN tasks[id] |->
                              IF f \in changed THEN procs[p].obj[f] ELSE tasks[id][f]]
                IN  IF TaskKeysHold(row)
                    THEN /\ tasks' = [tasks EXCEPT ![id] = row]
                         /\ procs' = [procs EXCEPT ![p] = Done(procs[p], OK, TRUE)]
                    ELSE /\ tasks' = tasks
                         /\ procs' = [procs EXCEPT ![p] =
                                         Done(procs[p], IntegrityError, FALSE)]
    /\ UNCHANGED <<today, groups, nextGroupId, memberships, nextTaskId, pending, last>>

RaceTaskDatas == {TaskData("Homework", MaxDay, "a", NoGroup)}
RaceUpdateDatas == {[status |-> s] : s \in Statuses}

NextRace ==
    \/ \E data \in RaceTaskDatas :
          procs = <<>> /\ nextTaskId <= MaxLifecycleTasks /\ CreateTask(data)
    \/ \E id \in 1..MaxLifecycleTasks, data \in RaceUpdateDatas :
          procs = <<>> /\ UpdateTask(id, data, None)
    \/ \E p \in Requests, id \in 1..MaxLifecycleTasks, data \in RaceUpdateDatas :
          UpdateBegin(p, id, data, None)
    \/ \E p \in Requests : UpdateCommit(p)

SpecRace == Init /\ [][NextRace]_vars

-----------------------------------------------------------------------------
(* Claims on interleaved updates, under SpecRace *)

\* C32: also when two updateTask requests on one task interleave, every
\* change of the task's stored status is a pair of the transition table.
C32_StatusHistoryInterleaved ==
    [][ \A id \in DOMAIN tasks \cap DOMAIN tasks' :
          tasks'[id].status # tasks[id].status =>
             tasks'[id].status \in ValidNext(tasks[id].status) ]_vars

-----------------------------------------------------------------------------
(* SpecOrder: updates that fail several checks at once *)

OrderTaskDatas == {TaskData("Homework", 1, "a", NoGroup)}

\* Every combination of a status, a priority out of the domain with or
\* without a progress out of range, the last group and an assignee with no
\* users row
OrderUpdateDatas ==
    {s @@ p @@ g @@ x :
        s \in {<<>>, [status |-> DONE], [status |-> IN_PROGRESS]},
        p \in {<<>>, [priority |-> "urgent"], [progress |-> 101, priority |-> "urgent"]},
        g \in {<<>>, [group_id |-> MaxAssignGroups]},
        x \in {<<>>, [assignee |-> "ghost"]}}

NextOrder ==
    \/ nextGroupId <= MaxAssignGroups /\ CreateGroup(GroupData, "b")
    \/ \E data \in OrderTaskDatas :
          nextTaskId <= MaxLifecycleTasks /\ CreateTask(data)
    \/ \E id \in 1..MaxLifecycleTasks, data \in OrderUpdateDatas :
          \E editor \in FieldsEditors(data) : UpdateTask(id, data, editor)
    \/ Teardown
    \/ AdvanceDay

SpecOrder == Init /\ [][NextOrder]_vars

-----------------------------------------------------------------------------
(* Claims on the order of the checks, under SpecOrder *)

\* The checks of an update d by editor e on the task old, in the order of
\* the specification, each with the kind and the message of its error
OrderedChecks(old, d, e) ==
    << [fails |-> /\ "status" \in DOMAIN d
                  /\ d["status"] # old.status
                  /\ <<old.status, d["status"]>> \notin TransitionTable,
        err |-> ValueError, msg |-> "Invalid status transition"],
       [fails |-> /\ "status" \in DOMAIN d
                  /\ d["status"] = IN_PROGRESS
                  /\ DateLT(old.deadline, today),
        err |-> ValueError, msg |-> "Cannot start a task that is past its deadline."],
       [fails |-> "progress" \in DOMAIN d /\ (d["progress"] < 0 \/ d["progress"] > 100),
        err |-> ValueError, msg |-> "Progress must be between 0 and 100"],
       [fails |-> "priority" \in DOMAIN d /\ d["priority"] \notin {"low", "medium", "high"},
        err |-> ValueError, msg |-> "Invalid priority value"],
       [fails |-> "group_id" \in DOMAIN d /\ d["group_id"] # NoGroup /\ e = None,
        err |-> PermissionError,
        msg |-> "User ID is required to assign a task to a group."],
       [fails |-> /\ "group_id" \in DOMAIN d /\ d["group_id"] # NoGroup
                  /\ ~MemberOf(memberships, e, d["group_id"]),
        err |-> PermissionError,
        msg |-> "You can only assign tasks to groups you are a member of."],
       [fails |-> "assignee" \in DOMAIN d /\ d["assignee"] # None
                  /\ d["assignee"] \notin Users,
        err |-> ValueError, msg |-> "Assignee user not found"],
       [fails |-> /\ "assignee" \in DOMAIN d /\ d["assignee"] \in Users
                  /\ Get(d, "group_id", old.group_id) # NoGroup
                  /\ ~MemberOf(memberships, d["assignee"],
                               Get(d, "group_id", old.group_id)),
        err |-> ValueError, msg |-> "Assignee must be member of the group"] >>

\* The indices of the checks that fail
Failing(checks) == {i \in DOMAIN checks : checks[i].fails}
Earliest(S) == CHOOSE i \in S : \A j \in S : i <= j

\* C33: an updateTask on a task that does not exist fails with the
\* not-found error whatever else is wrong with it; on an existing task, an
\* update that violates several checks fails with the error of the earliest
\* failing check in the order status transition, past-deadline start,
\* progress bound, priority domain, group authorization, assignee, and an
\* update that violates none of them succeeds.
C33_CheckOrder ==
    [][ last'.op = "updateTask" =>
          IF last'.task \notin DOMAIN tasks
          THEN last'.err = NotFound
          ELSE LET checks == OrderedChecks(tasks[last'.task], last'.data, last'.user)
                   failing == Failing(checks)
               IN  IF failing = {}
                   THEN last'.err = OK
                   ELSE /\ last'.err = checks[Earliest(failing)].err
                        /\ last'.msg = checks[Earliest(failing)].msg ]_vars

\* An update with an invalid status transition and a group its editor is
\* not a member of has failed with the error of the status check.
C33_Witness ==
    /\ last.op = "updateTask" /\ last.task \in DOMAIN tasks
    /\ Cardinality(Failing(OrderedChecks(tasks[last.task], last.data, last.user))) > 1
    /\ "status" \in DOMAIN last.data /\ last.data["status"] = DONE
    /\ "group_id" \in DOMAIN last.data
    /\ last.user # None /\ ~MemberOf(memberships, last.user, last.data["group_id"])
    /\ last.err = ValueError /\ last.msg = "Invalid status transition"

-----------------------------------------------------------------------------
(* SpecNormalize: the forms of a status, in creates and in updates *)

NormalizeCreateDatas ==
    {TaskData("Homework", MaxDay, "a", NoGroup)}
    \cup {TaskData("Essay", MaxDay, "a", NoGroup) @@ [status |-> s] :
             s \in {CamelInProgress, CapitalDone}}

NormalizeUpdateDatas ==
    {[status |-> s] :
        s \in {EXPIRED, CamelInProgress, UpperInProgress, INPROGRESS, IN_PROGRESS,
               DONE, TODO}}
    \cup {[status |-> EXPIRED, notes |-> "n"],
          [status |-> EXPIRED, progress |-> 101],
          [notes |-> "m"]}

NextNormalize ==
    \/ \E data \in NormalizeCreateDatas :
          nextTaskId <= MaxLifecycleTasks /\ CreateTask(data)
    \/ \E id \in 1..MaxLifecycleTasks, data \in NormalizeUpdateDatas :
          UpdateTask(id, data, None)
    \/ AdvanceDay

SpecNormalize == Init /\ [][NextNormalize]_vars

-----------------------------------------------------------------------------
(* Claims on status normalization, under SpecNormalize *)

\* The normalized lowercase form of a status
Normal(s) == Replace(Lower(s), INPROGRESS, IN_PROGRESS)

\* An update whose status is exactly expired is an update without a status:
\* it fails only on another field, and on success the status is unchanged
\* and the other fields are applied
ExpiredIsStripped ==
    (StatusUpdateStep /\ last'.data["status"] = EXPIRED) =>
       LET id == last'.task
           d == last'.data
           badProgress == "progress" \in DOMAIN d /\ (d["progress"] < 0 \/ d["progress"] > 100)
       IN  /\ last'.err = IF badProgress THEN ValueError ELSE OK
           /\ ObjNext(id).status = Obj(id).status
           /\ last'.err = OK =>
                 \A f \in DOMAIN d \ {"status"} : tasks'[id][f] = d[f]

\* inProgress in any letter case is treated and stored as in_progress
InProgressAnyCase ==
    (StatusUpdateStep /\ Lower(last'.data["status"]) \in {INPROGRESS, IN_PROGRESS}) =>
       LET id == last'.task
           current == Normal(Obj(id).status)
           allowed == /\ current = IN_PROGRESS \/ <<current, IN_PROGRESS>> \in TransitionTable
                      /\ ~DateLT(Obj(id).deadline, today)
       IN  /\ last'.err = IF allowed THEN OK ELSE ValueError
           /\ last'.err = OK => tasks'[id].status = IN_PROGRESS

\* The stored status after a successful update is in normalized form
StoredNormalized ==
    UpdatedStep => tasks'[last'.task].status = Normal(tasks'[last'.task].status)

\* C34: an updateTask whose incoming status is exactly expired behaves as an
\* update without a status; an incoming inProgress in any letter case is
\* treated and stored as in_progress; the stored status after a successful
\* update is always the normalized lowercase form.
C34_StatusNormalization ==
    [][ ExpiredIsStripped /\ InProgressAnyCase /\ StoredNormalized ]_vars

\* The claim without its last part
NormalizationOfInput == [][ ExpiredIsStripped /\ InProgressAnyCase ]_vars

-----------------------------------------------------------------------------
(* Invariants of the stored tasks *)

\* C35: in every reachable state, under SpecTask, every task whose status
\* is done has progress 100.
C35_DoneImpliesFullProgress ==
    \A id \in DOMAIN tasks : tasks[id].status = DONE => tasks[id].progress = 100

-----------------------------------------------------------------------------
(* SpecStale: a member is assigned a task of the group, then removed *)

StaleTaskDatas == {TaskData("Homework", MaxDay, "a", g) : g \in AssignGroupIds}

NextStale ==
    \/ \E creator \in Pair :
          nextGroupId <= MaxAssignGroups /\ CreateGroup(GroupData, creator)
    \/ \E u \in Pair, g \in AssignGroupIds : JoinGroup(u, g)
    \/ \E data \in StaleTaskDatas :
          nextTaskId <= MaxLifecycleTasks /\ CreateTask(data)
    \/ \E id \in 1..MaxLifecycleTasks, x \in Pair, editor \in Pair :
          UpdateTask(id, [assignee |-> x], editor)
    \/ \E k \in Pair, t \in Pair, g \in AssignGroupIds : KickUser(k, t, g)
    \/ \E u \in Pair, g \in AssignGroupIds : LeaveGroup(u, g)

SpecStale == Init /\ [][NextStale]_vars

\* C36: in every reachable state, every task with a group g and an assignee
\* a has a holding a membership in g.
C36_NoStaleAssignee ==
    \A id \in DOMAIN tasks :
       (tasks[id].group_id # NoGroup /\ tasks[id].assignee # None) =>
          MemberOf(memberships, tasks[id].assignee, tasks[id].group_id)

-----------------------------------------------------------------------------
(* Claims on repeated creation as the date moves on, under SpecCreate *)

\* C37: a createTask with the exact title, deadline, user_id and group_id
\* of a stored task fails with ValidationError and adds nothing once the
\* current date is past that task's deadline, and returns the stored task,
\* adding nothing, while the current date is on or before the deadline.
C37_DeadlineBeforeDuplicate ==
    [][ \A id \in DOMAIN tasks :
          (RepeatedCreateStep /\ id \in SameKey(last'.data)) =>
             /\ DOMAIN tasks' = DOMAIN tasks
             /\ tasks'[id] = tasks[id]
             /\ IF DateLT(tasks[id].deadline, today)
                THEN last'.err = ValueError /\ last'.task \notin DOMAIN tasks
                ELSE last'.err = OK /\ last'.task = id ]_vars

\* After the date has moved past the deadline of a stored task, a createTask
\* with that task's key has failed with ValidationError.
C37_Witness ==
    /\ last.op = "createTask" /\ last.err = ValueError
    /\ {"title", "deadline"} \subseteq DOMAIN last.data
    /\ \E id \in SameKey(last.data) : DateLT(tasks[id].deadline, today)

-----------------------------------------------------------------------------
(* SpecRefs: groups that come and go under tasks and memberships *)

RefsGroupIds == 1..MaxAssignGroups
RefsTaskDatas ==
    {TaskData("Homework", MaxDay, "a", g) : g \in {NoGroup} \cup RefsGroupIds}
RefsUpdateDatas == {[group_id |-> g] : g \in {NoGroup} \cup RefsGroupIds}

NextRefs ==
    \/ \E creator \in Pair :
          nextGroupId <= MaxAssignGroups /\ CreateGroup(GroupData, creator)
    \/ \E u \in Pair, g \in RefsGroupIds : JoinGroup(u, g)
    \/ \E u \in Pair, g \in RefsGroupIds : LeaveGroup(u, g)
    \/ \E k \in Pair, t \in Pair, g \in RefsGroupIds : KickUser(k, t, g)
    \/ \E data \in RefsTaskDatas : nextTaskId <= MaxGroupTasks /\ CreateTask(data)
    \/ \E id \in 1..MaxGroupTasks, data \in RefsUpdateDatas, editor \in Pair :
          UpdateTask(id, data, editor)

SpecRefs == Init /\ [][NextRefs]_vars

\* C38: in every reachable state every membership refers to a group that
\* exists, and every task with a group refers to a group that exists.
C38_ReferentialIntegrity ==
    /\ \A r \in BagToSet(memberships) : r.group_id \in DOMAIN groups
    /\ \A id \in DOMAIN tasks :
          tasks[id].group_id = NoGroup \/ tasks[id].group_id \in DOMAIN groups

\* The last admin has left a group with another member, after a task had
\* been stored: the group, its memberships and every task are gone.
C38_Witness ==
    /\ last.op = "leaveGroup" /\ last.err = OK /\ last.rows > 1
    /\ last.group \notin DOMAIN groups
    /\ RowsOfGroup(memberships, last.group) = {}
    /\ nextTaskId > 1 /\ DOMAIN tasks = {}

====
